---------------------------- MODULE Spec2Model ----------------------------
(***************************************************************************)
(* A model of the search pipeline of snippy: Bibliographic Search, the     *)
(* Ranking Resolver with its Ranking Cache, the Batch Processor, the       *)
(* Result Merger/Sorter and the Result Store.                              *)
(*                                                                         *)
(* Strings the code takes apart (years, year ranges, journal names,        *)
(* storage keys) are sequences of one-character strings, so that isdigit,  *)
(* int, split, replace and the key formatting are computed, not assumed.   *)
(* Python's None is the empty sequence and a present integer level l is    *)
(* the one-element sequence <<l>>.                                         *)
(***************************************************************************)
EXTENDS Integers, Sequences, FiniteSets, TLC

VARIABLES
    \* sort_results applied to one list
    sortInput, sortOutput, sortPc,
    \* the merge of get_more_results applied to an existing set and a page
    existing_results, batch_results, combined_results, combined_again, mergePc,
    \* one call of process_search_batch
    limit, year_range, target_jufo, raw_results, results, enriched_results,
    batchReturn, batchPc,
    \* what the Bibliographic Source does with the request of the call, and
    \* what the resolutions of the records did (history)
    crossref_response, task_outcomes,
    \* the Ranking Cache, the calls of get_jufo_level and the set_jufo_level
    \* tasks they spawn
    jufo_cache, calls, tasks,
    \* the blob store, the clock, the search requests and, for each
    \* keywords, the snapshot last written for them
    blobs, now, requests, latest

sortVars == <<sortInput, sortOutput, sortPc>>
mergeVars == <<existing_results, batch_results, combined_results,
               combined_again, mergePc>>
batchVars == <<limit, year_range, target_jufo, raw_results, results,
               enriched_results, batchReturn, batchPc, crossref_response,
               task_outcomes>>
resolveVars == <<jufo_cache, calls, tasks>>
storeVars == <<blobs, now, requests, latest>>
vars == <<sortVars, mergeVars, batchVars, resolveVars, storeVars>>

---------------------------------------------------------------------------
(* Python values *)

None == <<>>
Some(l) == <<l>>

\* The JUFO scale: the highest level the Ranking Source assigns.
MaxLevel == 3
Levels == 0..MaxLevel
OptLevels == {None} \cup {Some(l) : l \in Levels}

Digits == {"0", "1", "2", "3", "4", "5", "6", "7", "8", "9"}

DigitVal(c) ==
    CASE c = "0" -> 0 [] c = "1" -> 1 [] c = "2" -> 2 [] c = "3" -> 3
      [] c = "4" -> 4 [] c = "5" -> 5 [] c = "6" -> 6 [] c = "7" -> 7
      [] c = "8" -> 8 [] c = "9" -> 9

\* str.isdigit(): non-empty and every character a digit
isdigit(s) == Len(s) > 0 /\ \A i \in 1..Len(s) : s[i] \in Digits

\* int(s) for a string of digits
RECURSIVE DecimalValue(_)
DecimalValue(s) ==
    IF s = <<>> THEN 0
    ELSE 10 * DecimalValue(SubSeq(s, 1, Len(s) - 1)) + DigitVal(s[Len(s)])

\* int(s): the value, or ValueError (None here) for a string that is no
\* decimal integer
int(s) == IF isdigit(s) THEN Some(DecimalValue(s)) ELSE None

---------------------------------------------------------------------------
(* Article records, as crossref_search builds them *)

\* a DOI is <<>> when the item has none, else <<n>> for the n-th registered
\* identifier
LinkPrefix == "https://doi.org/"
NoLink == <<"No link available">>
UnknownJournal == <<"U", "n", "k", "n", "o", "w", "n">>
YearNA == <<"N", "/", "A">>

\* link = f"https://doi.org/{doi}" if doi else "No link available"
MakeLink(doi) == IF doi # <<>> THEN <<LinkPrefix>> \o doi ELSE NoLink

\* year = str(date_parts[0]) when the item has a truthy first date part
MakeYear(date) == IF date # <<>> THEN date ELSE YearNA

\* The journal names of the model: a name, an ISSN with a hyphen, an ISSN
\* of digits only, a long name with a hyphen, a long string of digits; and
\* Natx, the name of a candidate of the Ranking Source.
Nature == <<"N", "a", "t", "u", "r", "e">>
IssnHyphen == <<"1", "2", "3", "4", "-", "5", "6", "7", "8">>
IssnDigits == <<"1", "2", "3", "4", "5", "6", "7", "8">>
LongHyphen == <<"A", "c", "t", "a", "-", "P", "h", "y", "s", "i", "c", "a">>
LongDigits == <<"1", "2", "3", "4", "5", "6", "7", "8", "9", "0">>
Natx == <<"N", "a", "t", "x">>

ResolveJournals ==
    {Nature, IssnHyphen, IssnDigits, LongHyphen, LongDigits, <<>>, UnknownJournal}

CandidateNames == {Nature, Natx}

---------------------------------------------------------------------------
(* Bibliographic Search: crossref_search and search *)

\* One item of a Crossref response: DOI, container-title and issued date
\* parts, each <<>> when the item lacks it.  The record built from it.
MakeJournal(container) == IF container # <<>> THEN container ELSE UnknownJournal

MakeRecord(item) ==
    [link |-> MakeLink(item.DOI), journal |-> MakeJournal(item.container),
     year |-> MakeYear(item.issued)]

\* A response of the Bibliographic Source is [kind |-> "items", items |-> seq],
\* [kind |-> "error"] (non-200, malformed, network error) or
\* [kind |-> "timeout"] (nothing within the deadline).
crossref_search(response) ==
    IF response.kind = "items"
    THEN [i \in 1..Len(response.items) |-> MakeRecord(response.items[i])]
    ELSE <<>>

\* mutant: an await with no deadline
wait_for_without_deadline(response) == response

\* asyncio.wait_for(crossref_search(...), timeout=6.0): a source that has
\* not answered when the deadline expires ([kind |-> "never"]) makes the
\* await raise asyncio.TimeoutError; any other response is what the await
\* gives
wait_for(response) ==
    IF response.kind = "never" THEN [kind |-> "TimeoutError"] ELSE response

\* the await is over: the response arrived or the deadline expired
Completes(awaited) == awaited.kind # "never"

\* str.split(sep) for a one-character separator
RECURSIVE Split(_, _)
Split(str, sep) ==
    IF \E i \in 1..Len(str) : str[i] = sep
    THEN LET i == CHOOSE k \in 1..Len(str) :
                      str[k] = sep /\ \A m \in 1..(k - 1) : str[m] # sep
         IN <<SubSeq(str, 1, i - 1)>> \o Split(SubSeq(str, i + 1, Len(str)), sep)
    ELSE <<str>>

All == <<"a", "l", "l">>
Unbounded == <<"9", "9", "9", "9">>

\* The year range filter of search: year_start and year_end after the
\* parse.  year_start is assigned before int(parts[1]) is evaluated, so it
\* keeps its value when the second int() raises ValueError.
ParseYearRange(range) ==
    LET parts == Split(range, "-")
        none == [year_start |-> None, year_end |-> None]
    IN IF range = All THEN none
       ELSE IF Len(parts) # 2 THEN none
       ELSE IF int(parts[1]) = None THEN none
       ELSE IF parts[2] = Unbounded
            THEN [year_start |-> int(parts[1]), year_end |-> None]
       ELSE IF int(parts[2]) = None
            THEN [year_start |-> int(parts[1]), year_end |-> None]
       ELSE [year_start |-> int(parts[1]), year_end |-> int(parts[2])]

\* mutant: the year filter left out
search_unfiltered(response, range) == crossref_search(response)

\* mutant: the end of the range excluded
search_end_exclusive(response, range) ==
    LET parsed == ParseYearRange(range)
        year_start == parsed.year_start
        year_end == parsed.year_end
        found == crossref_search(response)
        InRange(item) ==
            LET year == int(item.year)
            IN /\ year # None
               /\ year[1] >= year_start[1]
               /\ (year_end = None \/ year[1] < year_end[1])
    IN IF wait_for(response).kind = "TimeoutError" THEN <<>>
       ELSE IF year_start # None THEN SelectSeq(found, InRange) ELSE found

\* search(query, offset, limit, year_range), given the response of the
\* Bibliographic Source to the request for `limit` rows
search(response, range) ==
    LET parsed == ParseYearRange(range)
        year_start == parsed.year_start
        year_end == parsed.year_end
        found == crossref_search(response)
        InRange(item) ==
            LET year == int(item.year)
            IN /\ year # None
               /\ year[1] >= year_start[1]
               /\ (year_end = None \/ year[1] <= year_end[1])
    IN IF wait_for(response).kind = "TimeoutError" THEN <<>>
       ELSE IF year_start # None THEN SelectSeq(found, InRange) ELSE found

---------------------------------------------------------------------------
(* Batch Processor: enrich_with_jufo_levels and process_search_batch *)

\* batch_size of enrich_with_jufo_levels
batch_size == 5

\* What one get_level_with_timeout task does, as the rest of the program
\* decides it: [kind |-> "level", level |-> l] when get_jufo_level returns l
\* (an integer or None), [kind |-> "timeout"] when it exceeds its deadline
\* and [kind |-> "raise"] when it raises another exception.
TaskValue(outcome) == IF outcome.kind = "level" THEN outcome.level ELSE None

WithLevel(item, level) ==
    [link |-> item.link, journal |-> item.journal, year |-> item.year,
     level |-> level]

Min(a, b) == IF a <= b THEN a ELSE b

\* the sub-batch (first index) the i-th record is resolved in
SubBatchOf(i) == ((i - 1) \div batch_size) * batch_size + 1

\* mutant: a timeout of one task taken as a failure of its sub-batch
enrich_timeout_fails_sub_batch(found, outcomes) ==
    [i \in 1..Len(found) |->
        LET first == SubBatchOf(i)
            last == Min(first + batch_size - 1, Len(found))
            failed == \E k \in first..last : outcomes[k].kind # "level"
        IN WithLevel(found[i], IF failed THEN None ELSE TaskValue(outcomes[i]))]

\* enrich_with_jufo_levels: asyncio.gather raises when a task of the
\* sub-batch raises, and then every item of the sub-batch gets level None
enrich_with_jufo_levels(found, outcomes) ==
    [i \in 1..Len(found) |->
        LET first == SubBatchOf(i)
            last == Min(first + batch_size - 1, Len(found))
            raised == \E k \in first..last : outcomes[k].kind = "raise"
        IN WithLevel(found[i], IF raised THEN None ELSE TaskValue(outcomes[i]))]

\* mutant: every record with a level above 0 counted
CountJufo_from_level_one(enriched) ==
    Cardinality({i \in 1..Len(enriched) :
                    enriched[i].level \in {Some(1), Some(2), Some(3)}})

\* jufo_count = sum(1 for r in enriched_results if r.get("level") in [2, 3])
CountJufo(enriched) ==
    Cardinality({i \in 1..Len(enriched) : enriched[i].level \in {Some(2), Some(3)}})

\* mutant: has_more not cleared when the target is reached
HasMore_ignoring_target(found, lim, target, count) == Len(found) = lim

\* has_more = len(results) == limit, cleared when the target is reached
HasMore(found, lim, target, count) ==
    IF target # None /\ count >= target[1] THEN FALSE ELSE Len(found) = lim

\* the triple process_search_batch returns
BatchTriple(list, more, count) ==
    [results |-> list, has_more |-> more, jufo_count |-> count]

\* A target_jufo that is a str (get_more_results hands over the JSON value
\* as it came) is <<characters, "str">>; an int n is Some(n).
StrTarget(chars) == <<chars, "str">>
IsStr(target) == Len(target) = 2

\* jufo_count >= target_jufo raises TypeError for a str
CompareRaises(target) == IsStr(target)

\* mutant: a handler for timeouts only
Caught_only_timeouts(exception) == exception = "TimeoutError"

\* except Exception of process_search_batch
Caught(exception) == exception \in {"TypeError", "AttributeError", "TimeoutError"}

---------------------------------------------------------------------------
(* Ranking Resolver: get_jufo_level and what it calls *)

Max(a, b) == IF a >= b THEN a ELSE b

\* fuzz.ratio(a, b): 0 when a string is empty, else 100 * 2M / T rounded,
\* M the number of matched characters and T the two lengths together.  M
\* is the length of a longest common subsequence, which is what both of
\* fuzzywuzzy's back ends find for the names of this model.
RECURSIVE LcsRow(_, _, _, _)
LcsRow(prev, ch, b, row) ==
    IF Len(row) = Len(b) THEN row
    ELSE LET j == Len(row) + 1
             diag == IF j = 1 THEN 0 ELSE prev[j - 1]
             left == IF j = 1 THEN 0 ELSE row[j - 1]
             cell == IF ch = b[j] THEN diag + 1 ELSE Max(prev[j], left)
         IN LcsRow(prev, ch, b, Append(row, cell))

RECURSIVE LcsRows(_, _, _)
LcsRows(a, b, prev) ==
    IF a = <<>> THEN prev
    ELSE LcsRows(Tail(a), b, LcsRow(prev, Head(a), b, <<>>))

Matches(a, b) == LcsRows(a, b, [j \in 1..Len(b) |-> 0])[Len(b)]

Ratio(a, b) ==
    IF a = <<>> \/ b = <<>> THEN 0
    ELSE LET total == Len(a) + Len(b)
         IN (200 * Matches(a, b) + total \div 2) \div total

\* the ratios of the names of the model, computed once (@@ makes the table
\* an explicit function)
RatioTable ==
    [p \in CandidateNames \X ResolveJournals |-> Ratio(p[1], p[2])] @@ <<>>

fuzz_ratio(a, b) ==
    IF <<a, b>> \in DOMAIN RatioTable THEN RatioTable[<<a, b>>] ELSE Ratio(a, b)

\* A response of the Ranking Source to a search request:
\* [kind |-> "ok", data |-> list of candidates] (status 200, a JSON list,
\* possibly empty), [kind |-> "status"] (another status or no list),
\* [kind |-> "timeout"], [kind |-> "error"].  fetch_jufo_api returns the
\* list when it is not empty and None otherwise.
fetch_jufo_api(response) ==
    IF response.kind = "ok" /\ response.data # <<>> THEN response.data ELSE None

\* query = query[:100] if len(query) > 100 else query
Truncate(query) == IF Len(query) > 100 THEN SubSeq(query, 1, 100) ELSE query

\* the three requests of try_jufo_queries_in_sequence
ExactRequest(query) == [strategy |-> "exact", param |-> "nimi", value |-> query]
WildcardRequest(query) ==
    [strategy |-> "wildcard", param |-> "nimi", value |-> <<"*">> \o query \o <<"*">>]
IssnRequest(query) == [strategy |-> "issn", param |-> "issn", value |-> query]

\* mutant: the length of the query not looked at
MightBeIssn_any_length(query) ==
    (\E i \in 1..Len(query) : query[i] = "-") \/ isdigit(query)

\* len(query) <= 9 and ('-' in query or query.isdigit())
MightBeIssn(query) ==
    Len(query) <= 9 /\ ((\E i \in 1..Len(query) : query[i] = "-") \/ isdigit(query))

\* the loop of get_jufo_level over the results: the first candidate of the
\* highest ratio above 0
RECURSIVE BestMatch(_, _, _)
BestMatch(found, journal_name, best) ==
    IF found = <<>> THEN best
    ELSE LET ratio == fuzz_ratio(Head(found).Name, journal_name)
         IN BestMatch(Tail(found), journal_name,
                      IF ratio > best.best_ratio
                      THEN [best_match |-> <<Head(found)>>, best_ratio |-> ratio]
                      ELSE best)

NoMatch == [best_match |-> None, best_ratio |-> 0]

\* mutant: a ratio of 60 accepted
Accepted_from_sixty(best) == best.best_match # None /\ best.best_ratio >= 60

\* best_match and best_ratio > 60
Accepted(best) == best.best_match # None /\ best.best_ratio > 60

\* A response of the Ranking Source to a detail request:
\* [kind |-> "ok", Level |-> string] (status 200, Level of the first
\* entry, "" when missing) or a failure kind.  augment_jufo_result makes
\* no request for a candidate without Jufo_ID.
augment_jufo_result(item, response) ==
    IF item.Jufo_ID = <<>> THEN None
    ELSE IF response.kind = "ok" THEN int(response.Level)
    ELSE None

\* mutant: the map written back as it was read
CacheSet_nothing_added(map, journal_name, level) == map

\* mutant: the index written back as it was read
AppendIndex_nothing_appended(index, metadata) == index

\* mutant: a cached level taken as a hit only when it is truthy
CacheHit_if_truthy(cached_level) == cached_level # None /\ cached_level[1] # 0

\* if cached_level is not None
CacheHit(cached_level) == cached_level # None

\* The Edge Config item "jufo_cache" is a map from journal names to levels
\* (None for a recorded miss).  get_edge_config_item returns None when the
\* read fails, and both callers then go on with the empty map.
EmptyCache == [j \in {} |-> None]

get_edge_config_item(ok) == IF ok THEN jufo_cache ELSE EmptyCache

\* jufo_cache.get(journal_name)
CacheGet(map, journal_name) ==
    IF journal_name \in DOMAIN map THEN map[journal_name] ELSE None

\* jufo_cache[journal_name] = level
CacheSet(map, journal_name, level) ==
    [j \in DOMAIN map \cup {journal_name} |->
        IF j = journal_name THEN level ELSE map[j]]

\* mutant: only the empty name taken as a sentinel
IsSentinel_empty_only(journal_name) == journal_name = <<>>

\* if not journal_name or journal_name == "Unknown"
IsSentinel(journal_name) == journal_name = <<>> \/ journal_name = UnknownJournal

---------------------------------------------------------------------------
(* Result Sorter: sort_results *)

\* mutant: a null level keyed 0, as an unranked journal
get_sort_key_null_as_zero(item) ==
    LET level == item.level
        level_key == IF level = None THEN 0 ELSE -(level[1])
        year_str == item.year
        year == IF isdigit(year_str) THEN DecimalValue(year_str) ELSE 0
    IN <<level_key, -year>>

\* mutant: the year not negated, oldest first
get_sort_key_oldest_first(item) ==
    LET level == item.level
        level_key == IF level = None THEN -1 ELSE -(level[1])
        year_str == item.year
        year == IF isdigit(year_str) THEN DecimalValue(year_str) ELSE 0
    IN <<level_key, year>>

get_sort_key(item) ==
    LET level == item.level
        level_key == IF level = None THEN -1 ELSE -(level[1])
        year_str == item.year
        year == IF isdigit(year_str) THEN DecimalValue(year_str) ELSE 0
    IN <<level_key, -year>>

\* Python's comparison of two (int, int) tuples
TupleLess(a, b) == a[1] < b[1] \/ (a[1] = b[1] /\ a[2] < b[2])

\* sorted(results, key=get_sort_key): Python's sort is stable; an insertion
\* sort that puts each item behind the items whose key is not greater gives
\* the same list
\* mutant: an item put ahead of the items of equal key (an unstable sort)
RECURSIVE Insert_before_equal(_, _)
Insert_before_equal(item, out) ==
    IF out = <<>> THEN <<item>>
    ELSE IF ~TupleLess(get_sort_key(out[1]), get_sort_key(item))
         THEN <<item>> \o out
         ELSE <<out[1]>> \o Insert_before_equal(item, Tail(out))

RECURSIVE Insert(_, _)
Insert(item, out) ==
    IF out = <<>> THEN <<item>>
    ELSE IF TupleLess(get_sort_key(item), get_sort_key(out[1]))
         THEN <<item>> \o out
         ELSE <<out[1]>> \o Insert(item, Tail(out))

\* mutant: the list handed back in the order it came in
sort_results_unsorted(list) == list

RECURSIVE sorted(_)
sorted(list) ==
    IF list = <<>> THEN <<>>
    ELSE Insert(list[Len(list)], sorted(SubSeq(list, 1, Len(list) - 1)))

sort_results(list) == sorted(list)

---------------------------------------------------------------------------
(* Result Merger: the merge of get_more_results *)

\* truth value of a string: it is not empty
Truthy(str) == str # <<>>

\* mutant: links of the existing set without the "No link available"
\* sentinel
existing_links_without_sentinel(existing) ==
    {existing[i].link : i \in {k \in 1..Len(existing) :
                                 Truthy(existing[k].link) /\ existing[k].link # NoLink}}

\* existing_links = {r.get('link') for r in existing_results if r.get('link')}
existing_links(existing) ==
    {existing[i].link : i \in {k \in 1..Len(existing) : Truthy(existing[k].link)}}

\* unique_new_results = [r for r in batch_results
\*                       if r.get('link') not in existing_links]
unique_new_results(existing, batch) ==
    LET links == existing_links(existing)
        NotSeen(r) == r.link \notin links
    IN SelectSeq(batch, NotSeen)

\* combined_results = existing_results + unique_new_results
merge(existing, batch) == existing \o unique_new_results(existing, batch)

---------------------------------------------------------------------------
(* Specification SpecSort: sort_results applied to every list of at most   *)
(* MaxSortLen enriched records.  The i-th input record carries the i-th    *)
(* DOI, so that records are told apart after the sort.                     *)

MaxSortLen == 3

Y2019 == <<"2", "0", "1", "9">>
Y2020 == <<"2", "0", "2", "0">>

SortYears == {YearNA, Y2019, Y2020}

\* the list of n records with distinct links whose years and levels are f
SortInput(n, f) ==
    [i \in 1..n |-> [link |-> MakeLink(<<i>>), journal |-> Nature,
                     year |-> f[i][1], level |-> f[i][2]]]

SortIdle ==
    /\ sortInput = <<>>
    /\ sortOutput = <<>>
    /\ sortPc = "idle"

MergeIdle ==
    /\ existing_results = <<>>
    /\ batch_results = <<>>
    /\ combined_results = <<>>
    /\ combined_again = <<>>
    /\ mergePc = "idle"

NoReturn == [results |-> <<>>, has_more |-> FALSE, jufo_count |-> 0]

BatchIdle ==
    /\ limit = 0
    /\ year_range = <<>>
    /\ target_jufo = None
    /\ raw_results = <<>>
    /\ results = <<>>
    /\ enriched_results = <<>>
    /\ batchReturn = NoReturn
    /\ batchPc = "idle"
    /\ crossref_response = [kind |-> "none"]
    /\ task_outcomes = <<>>

ResolveIdle ==
    /\ jufo_cache = <<>>
    /\ calls = <<>>
    /\ tasks = <<>>

StoreIdle ==
    /\ blobs = <<>>
    /\ now = 0
    /\ requests = <<>>
    /\ latest = <<>>

SortInit ==
    /\ \E n \in 0..MaxSortLen :
           \E f \in [1..n -> SortYears \X OptLevels] : sortInput = SortInput(n, f)
    /\ sortOutput = <<>>
    /\ sortPc = "call"
    /\ MergeIdle
    /\ BatchIdle
    /\ ResolveIdle
    /\ StoreIdle

\* sorted_results = sort_results(combined_results)
SortResults ==
    /\ sortPc = "call"
    /\ sortOutput' = sort_results(sortInput)
    /\ sortPc' = "returned"
    /\ UNCHANGED <<sortInput, mergeVars, batchVars, resolveVars, storeVars>>

SortNext == SortResults

SpecSort == SortInit /\ [][SortNext]_vars

---------------------------------------------------------------------------
(* Specification SpecMerge: the merge applied to every existing set of at  *)
(* most MaxMergeLen records and every page of at most MaxMergeLen records, *)
(* and then applied once more with the same page.  Links are the ones      *)
(* crossref_search builds: a DOI link, or the sentinel for an item with no *)
(* DOI.                                                                    *)

MaxMergeLen == 2

MergeDois == {<<>>, <<1>>, <<2>>}
MergeLevels == {None, Some(2)}

MergeRecords ==
    { [link |-> MakeLink(doi), journal |-> Nature, year |-> Y2020, level |-> l]
      : doi \in MergeDois, l \in MergeLevels }

MergeLists == UNION { [1..n -> MergeRecords] : n \in 0..MaxMergeLen }

MergeInit ==
    /\ existing_results \in MergeLists
    /\ batch_results \in MergeLists
    /\ combined_results = <<>>
    /\ combined_again = <<>>
    /\ mergePc = "call"
    /\ SortIdle
    /\ BatchIdle
    /\ ResolveIdle
    /\ StoreIdle

\* combined_results = existing_results + unique_new_results
Merge ==
    /\ mergePc = "call"
    /\ combined_results' = merge(existing_results, batch_results)
    /\ mergePc' = "merged"
    /\ UNCHANGED <<existing_results, batch_results, combined_again, sortVars,
                   batchVars, resolveVars, storeVars>>

\* the same page merged into the combined set
MergeAgain ==
    /\ mergePc = "merged"
    /\ combined_again' = merge(combined_results, batch_results)
    /\ mergePc' = "merged_twice"
    /\ UNCHANGED <<existing_results, batch_results, combined_results, sortVars,
                   batchVars, resolveVars, storeVars>>

MergeNext == Merge \/ MergeAgain

SpecMerge == MergeInit /\ [][MergeNext]_vars

---------------------------------------------------------------------------
(* Specification SpecBatch: one call of process_search_batch, for every    *)
(* limit up to MaxLimit, a year range, a target, every response of the     *)
(* Bibliographic Source with at most `limit` items and every outcome of    *)
(* the ranking resolution of each record.                                  *)

MaxLimit == 2

Y2005 == <<"2", "0", "0", "5">>
Y2010 == <<"2", "0", "1", "0">>
Y2012 == <<"2", "0", "1", "2">>
Y2015 == <<"2", "0", "1", "5">>

Range(from, to) == from \o <<"-">> \o to

Abc == <<"a", "b", "c">>

\* "all", three well-formed ranges, and two ranges with a part that is not
\* an integer
BatchRanges ==
    {All, Range(Y2010, Unbounded), Range(Y2010, Y2015), Range(Y2012, Y2020),
     Range(Y2010, Abc), Range(Abc, Y2020)}
BatchTargets == {None, Some(1), Some(2), StrTarget(<<"1">>)}

\* the items the Bibliographic Source answers with
SourceItems ==
    { [DOI |-> <<1>>, container |-> Nature, issued |-> Y2005],
      [DOI |-> <<2>>, container |-> Nature, issued |-> Y2020],
      [DOI |-> <<3>>, container |-> Nature, issued |-> Y2012],
      [DOI |-> <<>>, container |-> <<>>, issued |-> <<>>] }

SourceResponses(rows) ==
    {[kind |-> "timeout"], [kind |-> "error"], [kind |-> "never"]}
        \cup UNION { { [kind |-> "items", items |-> page]
                       : page \in [1..n -> SourceItems] } : n \in 0..rows }

TaskLevels == OptLevels

\* get_jufo_level returns None for the "Unknown" journal before its first
\* await, so that task neither times out nor raises
TaskOutcomes(item) ==
    IF item.journal = UnknownJournal
    THEN {[kind |-> "level", level |-> None]}
    ELSE {[kind |-> "level", level |-> l] : l \in TaskLevels}
             \cup {[kind |-> "timeout"], [kind |-> "raise"]}

OutcomeLists(found) ==
    {o \in [1..Len(found) -> UNION {TaskOutcomes(found[i]) : i \in 1..Len(found)}] :
        \A i \in 1..Len(found) : o[i] \in TaskOutcomes(found[i])}

BatchInit ==
    /\ limit \in 1..MaxLimit
    /\ year_range \in BatchRanges
    /\ target_jufo \in BatchTargets
    /\ raw_results = <<>>
    /\ results = <<>>
    /\ enriched_results = <<>>
    /\ batchReturn = NoReturn
    /\ batchPc = "search"
    /\ crossref_response \in SourceResponses(limit)
    /\ task_outcomes = <<>>
    /\ SortIdle
    /\ MergeIdle
    /\ ResolveIdle
    /\ StoreIdle

\* results = await search(query, offset, limit, year_range)
BatchSearch ==
    /\ batchPc = "search"
    /\ Completes(wait_for(crossref_response))
    /\ raw_results' = crossref_search(crossref_response)
    /\ results' = search(crossref_response, year_range)
    /\ batchPc' = "searched"
    /\ UNCHANGED <<limit, year_range, target_jufo, enriched_results,
                   batchReturn, crossref_response, task_outcomes,
                   sortVars, mergeVars, resolveVars, storeVars>>

\* mutant: the empty page handed to the enrichment
BatchReturnEmpty_enriched ==
    /\ batchPc = "searched"
    /\ results = <<>>
    /\ enriched_results' = <<>>
    /\ batchPc' = "enriched"
    /\ UNCHANGED <<limit, year_range, target_jufo, raw_results, results,
                   batchReturn, crossref_response, task_outcomes,
                   sortVars, mergeVars, resolveVars, storeVars>>

\* if not results: return [], False, 0
BatchReturnEmpty ==
    /\ batchPc = "searched"
    /\ results = <<>>
    /\ batchReturn' = BatchTriple(<<>>, FALSE, 0)
    /\ batchPc' = "returned"
    /\ UNCHANGED <<limit, year_range, target_jufo, raw_results, results,
                   enriched_results, crossref_response, task_outcomes,
                   sortVars, mergeVars, resolveVars, storeVars>>

\* enriched_results = await enrich_with_jufo_levels(results)
BatchEnrich ==
    /\ batchPc = "searched"
    /\ results # <<>>
    /\ \E outcomes \in OutcomeLists(results) :
           /\ enriched_results' = enrich_with_jufo_levels(results, outcomes)
           /\ task_outcomes' = outcomes
    /\ batchPc' = "enriched"
    /\ UNCHANGED <<limit, year_range, target_jufo, raw_results, results,
                   batchReturn, crossref_response,
                   sortVars, mergeVars, resolveVars, storeVars>>

\* the count, has_more and the return of process_search_batch; a
\* TypeError of the comparison with the target goes to the handler of
\* process_search_batch, which returns [], False, 0
BatchReturn ==
    /\ batchPc = "enriched"
    /\ LET count == CountJufo(enriched_results)
       IN IF ~CompareRaises(target_jufo)
          THEN /\ batchReturn' = BatchTriple(enriched_results,
                                     HasMore(results, limit, target_jufo, count), count)
               /\ batchPc' = "returned"
          ELSE IF Caught("TypeError")
          THEN /\ batchReturn' = BatchTriple(<<>>, FALSE, 0)
               /\ batchPc' = "returned"
          ELSE /\ batchPc' = "raised"
               /\ UNCHANGED batchReturn
    /\ UNCHANGED <<limit, year_range, target_jufo, raw_results, results,
                   enriched_results, crossref_response, task_outcomes,
                   sortVars, mergeVars, resolveVars, storeVars>>

BatchNext == BatchSearch \/ BatchReturnEmpty \/ BatchEnrich \/ BatchReturn

SpecBatch == BatchInit /\ [][BatchNext]_vars

\* the event loop runs the call as long as it has a step to take, and the
\* deadline of every wait_for expires
SpecBatchLive == SpecBatch /\ WF_vars(BatchNext)

---------------------------------------------------------------------------
(* Specification SpecEnrich: one call of enrich_with_jufo_levels for a     *)
(* page of up to MaxPage records, task by task.  A step creates the        *)
(* get_level_with_timeout tasks of a sub-batch, ends one task (with a      *)
(* level, at its deadline, or with an exception of get_jufo_level), or     *)
(* resumes the loop after asyncio.gather.  gather hands the first          *)
(* exception of a task to the loop at once and leaves the other tasks      *)
(* running.                                                                *)

MaxPage == 7

Waiting == [kind |-> "waiting"]
Running == [kind |-> "running"]

EnrichLevels == {None, Some(2)}

\* what a running task ends with
Endings ==
    {[kind |-> "level", level |-> l] : l \in EnrichLevels}
        \cup {[kind |-> "timeout"], [kind |-> "raise"]}

\* the page of n records
EnrichPage(n) ==
    [i \in 1..n |-> [link |-> MakeLink(<<i>>), journal |-> Nature, year |-> Y2020]]

\* batch = results[i:i+batch_size], for the sub-batch the loop is at
First == Len(enriched_results) + 1
Last == Min(Len(enriched_results) + batch_size, Len(results))

EnrichInit ==
    /\ limit = MaxPage
    /\ year_range = All
    /\ target_jufo = None
    /\ raw_results = <<>>
    /\ \E n \in 1..MaxPage :
           /\ results = EnrichPage(n)
           /\ task_outcomes = [i \in 1..n |-> Waiting]
    /\ enriched_results = <<>>
    /\ batchReturn = NoReturn
    /\ batchPc = "loop"
    /\ crossref_response = [kind |-> "none"]
    /\ SortIdle
    /\ MergeIdle
    /\ ResolveIdle
    /\ StoreIdle

EnrichFrame ==
    UNCHANGED <<limit, year_range, target_jufo, raw_results, results, batchReturn,
                crossref_response, sortVars, mergeVars, resolveVars, storeVars>>

\* tasks.append(get_level_with_timeout(journal)) for the items of the
\* sub-batch, up to the await of asyncio.gather(*tasks)
CreateTasks ==
    /\ batchPc = "loop"
    /\ Len(enriched_results) < Len(results)
    /\ task_outcomes' = [i \in 1..Len(results) |->
                             IF i \in First..Last THEN Running ELSE task_outcomes[i]]
    /\ batchPc' = "gather"
    /\ UNCHANGED enriched_results
    /\ EnrichFrame

\* a task ends: get_jufo_level returns, its wait_for expires, or
\* get_jufo_level raises
TaskEnds(i) ==
    /\ i \in DOMAIN task_outcomes
    /\ task_outcomes[i] = Running
    /\ \E ending \in Endings : task_outcomes' = [task_outcomes EXCEPT ![i] = ending]
    /\ UNCHANGED <<enriched_results, batchPc>>
    /\ EnrichFrame

\* levels = await asyncio.gather(*tasks) returns: every task of the
\* sub-batch has ended and none has raised; the levels are put on the items
GatherReturns ==
    /\ batchPc = "gather"
    /\ \A i \in First..Last : task_outcomes[i].kind \in {"level", "timeout"}
    /\ enriched_results' =
           enriched_results \o
               [k \in 1..(Last - First + 1) |->
                   WithLevel(results[First + k - 1],
                             TaskValue(task_outcomes[First + k - 1]))]
    /\ batchPc' = "loop"
    /\ UNCHANGED task_outcomes
    /\ EnrichFrame

\* mutant: the handler leaves the levels of the tasks that returned
GatherRaises_keeps_levels ==
    /\ batchPc = "gather"
    /\ \E i \in First..Last : task_outcomes[i].kind = "raise"
    /\ enriched_results' =
           enriched_results \o
               [k \in 1..(Last - First + 1) |->
                   WithLevel(results[First + k - 1],
                             TaskValue(task_outcomes[First + k - 1]))]
    /\ batchPc' = "loop"
    /\ UNCHANGED task_outcomes
    /\ EnrichFrame

\* asyncio.gather raises the exception of a task of the sub-batch; the
\* handler puts level None on every item of the sub-batch
GatherRaises ==
    /\ batchPc = "gather"
    /\ \E i \in First..Last : task_outcomes[i].kind = "raise"
    /\ enriched_results' =
           enriched_results \o
               [k \in 1..(Last - First + 1) |-> WithLevel(results[First + k - 1], None)]
    /\ batchPc' = "loop"
    /\ UNCHANGED task_outcomes
    /\ EnrichFrame

\* return enriched_results
EnrichReturns ==
    /\ batchPc = "loop"
    /\ Len(enriched_results) = Len(results)
    /\ batchPc' = "enriched"
    /\ UNCHANGED <<enriched_results, task_outcomes>>
    /\ EnrichFrame

EnrichNext ==
    \/ CreateTasks
    \/ \E i \in 1..MaxPage : TaskEnds(i)
    \/ GatherReturns
    \/ GatherRaises
    \/ EnrichReturns

SpecEnrich == EnrichInit /\ [][EnrichNext]_vars

---------------------------------------------------------------------------
(* Specification SpecResolve: up to MaxCalls calls of get_jufo_level, which *)
(* may overlap, against one Ranking Cache (empty, or holding what an       *)
(* earlier call wrote) and a Ranking Source that answers every request in  *)
(* every way.  A step is what a call does from one await to the next.  The *)
(* set_jufo_level task a call spawns runs on its own, and is lost when the *)
(* event loop of the request is closed before the task has finished.       *)

MaxCalls == 1
MaxCandidates == 2

\* an element of the JSON list of a response that is not an object (a
\* string, a number, null)
NotAnObject == [json |-> "string"]

IsDict(result) == "json" \notin DOMAIN result

Candidates ==
    { [Name |-> Nature, Jufo_ID |-> <<1>>],
      [Name |-> Natx, Jufo_ID |-> <<2>>],
      [Name |-> Nature, Jufo_ID |-> <<>>],
      NotAnObject }

CandidateLists == UNION { [1..n -> Candidates] : n \in 0..MaxCandidates }

Failures == {[kind |-> "status"], [kind |-> "timeout"], [kind |-> "error"]}

SearchResponses == {[kind |-> "ok", data |-> d] : d \in CandidateLists} \cup Failures

DetailResponses ==
    {[kind |-> "ok", Level |-> l] : l \in {<<"0">>, <<"2">>, <<>>}} \cup Failures

\* what the cache holds for a journal: <<>> for no entry, <<value>> for an
\* entry (history, used by the claims only)
Entry(map, journal_name) ==
    IF journal_name \in DOMAIN map THEN <<map[journal_name]>> ELSE <<>>

\* the levels augment_jufo_result returns for DetailResponses, which are
\* the values set_jufo_level writes
CachedValues == {None, Some(0), Some(2)}

\* the cache as earlier requests left it: nothing, or an entry for Nature
InitialCaches ==
    UNION { [D -> CachedValues] : D \in SUBSET {Nature} }

IdleCall ==
    [pc |-> "idle", journal |-> <<>>, atStart |-> <<>>, held |-> <<>>,
     readOk |-> FALSE, cached |-> None, queries |-> <<>>, best |-> NoMatch, details |-> 0,
     result |-> None]

NoTask ==
    [pc |-> "none", journal |-> <<>>, level |-> None, readOk |-> FALSE,
     snapshot |-> EmptyCache]

\* mutant: the write of a miss, whatever the level
create_task_of_a_miss(journal_name, level) ==
    [pc |-> "spawned", journal |-> journal_name, level |-> None,
     readOk |-> FALSE, snapshot |-> EmptyCache]

\* asyncio.create_task(set_jufo_level(journal_name, level))
create_task(journal_name, level) ==
    [pc |-> "spawned", journal |-> journal_name, level |-> level,
     readOk |-> FALSE, snapshot |-> EmptyCache]

\* mutant: the level dropped at the return
Return_null(call, level) == [call EXCEPT !.pc = "done", !.result = None]

Return(call, level) == [call EXCEPT !.pc = "done", !.result = level]

Asked(call, request, data) ==
    [call EXCEPT !.queries = Append(@, [request |-> request, found |-> data # None])]

ResolveInit ==
    /\ jufo_cache \in InitialCaches
    /\ calls = [c \in 1..MaxCalls |-> IdleCall]
    /\ tasks = [c \in 1..MaxCalls |-> NoTask]
    /\ SortIdle
    /\ MergeIdle
    /\ BatchIdle
    /\ StoreIdle

Others == <<sortVars, mergeVars, batchVars, storeVars>>

\* get_jufo_level(journal_name) is called; a sentinel journal returns None
\* at once
StartCall(c) ==
    /\ calls[c].pc = "idle"
    /\ \A d \in 1..(c - 1) : calls[d].pc # "idle"
    /\ \E journal_name \in ResolveJournals :
           LET call == [calls[c] EXCEPT !.journal = journal_name,
                                        !.atStart = Entry(jufo_cache, journal_name)]
           IN calls' = [calls EXCEPT ![c] =
                           IF IsSentinel(journal_name) THEN Return(call, None)
                           ELSE [call EXCEPT !.pc = "cache"]]
    /\ UNCHANGED <<jufo_cache, tasks, Others>>

\* cached_level = await get_cached_jufo_level(journal_name)
CacheRead(c) ==
    /\ calls[c].pc = "cache"
    /\ \E ok \in BOOLEAN :
           LET cached_level == CacheGet(get_edge_config_item(ok), calls[c].journal)
               call == [calls[c] EXCEPT !.cached = cached_level,
                                        !.readOk = ok,
                                        !.held = Entry(jufo_cache, calls[c].journal)]
           IN calls' = [calls EXCEPT ![c] =
                           IF CacheHit(cached_level) THEN Return(call, cached_level)
                           ELSE [call EXCEPT !.pc = "exact"]]
    /\ UNCHANGED <<jufo_cache, tasks, Others>>

\* mutant: the miss returned and not recorded
NoResults_not_recorded(c, call) ==
    /\ calls' = [calls EXCEPT ![c] = Return(call, None)]
    /\ UNCHANGED tasks

\* get_jufo_level from the return of try_jufo_queries_in_sequence with no
\* results to its own return
NoResults(c, call) ==
    /\ calls' = [calls EXCEPT ![c] = Return(call, None)]
    /\ tasks' = [tasks EXCEPT ![c] = create_task(call.journal, None)]

\* result.get("Name", "") raises AttributeError for a result that is not
\* a dict; the loop visits every result, and nothing in get_jufo_level
\* catches the exception
GetRaises(data) == \E i \in 1..Len(data) : ~IsDict(data[i])

\* get_jufo_level from the return of try_jufo_queries_in_sequence with
\* results to its next await (the detail request), its return or the
\* exception it raises
GotResults(c, call, data) ==
    LET best == BestMatch(data, call.journal, NoMatch)
        matched == [call EXCEPT !.best = best]
    IN IF GetRaises(data)
       THEN /\ calls' = [calls EXCEPT ![c] = [call EXCEPT !.pc = "raised"]]
            /\ UNCHANGED tasks
       ELSE IF Accepted(best) /\ best.best_match[1].Jufo_ID # <<>>
       THEN /\ calls' = [calls EXCEPT ![c] = [matched EXCEPT !.pc = "detail"]]
            /\ UNCHANGED tasks
       ELSE /\ calls' = [calls EXCEPT ![c] = Return(matched, None)]
            /\ tasks' = [tasks EXCEPT ![c] = create_task(call.journal, None)]

\* the call goes on from the response to its exact-name request
ExactAnswered(c, response) ==
    LET query == Truncate(calls[c].journal)
        data == fetch_jufo_api(response)
        call == Asked(calls[c], ExactRequest(query), data)
    IN IF data # None THEN GotResults(c, call, data)
       ELSE /\ calls' = [calls EXCEPT ![c] = [call EXCEPT !.pc = "wildcard"]]
            /\ UNCHANGED tasks

\* data = await fetch_jufo_api(f"{base_url}?nimi={quote(query)}")
QueryExact(c) ==
    /\ calls[c].pc = "exact"
    /\ \E response \in SearchResponses : ExactAnswered(c, response)
    /\ UNCHANGED <<jufo_cache, Others>>

\* the call goes on from the response to its wildcard request
WildcardAnswered(c, response) ==
    LET query == Truncate(calls[c].journal)
        data == fetch_jufo_api(response)
        call == Asked(calls[c], WildcardRequest(query), data)
    IN IF data # None THEN GotResults(c, call, data)
       ELSE IF MightBeIssn(query)
       THEN /\ calls' = [calls EXCEPT ![c] = [call EXCEPT !.pc = "issn"]]
            /\ UNCHANGED tasks
       ELSE NoResults(c, call)

\* data = await fetch_jufo_api(f"{base_url}?nimi={quote(f'*{query}*')}")
QueryWildcard(c) ==
    /\ calls[c].pc = "wildcard"
    /\ \E response \in SearchResponses : WildcardAnswered(c, response)
    /\ UNCHANGED <<jufo_cache, Others>>

\* the call goes on from the response to its ISSN request
IssnAnswered(c, response) ==
    LET query == Truncate(calls[c].journal)
        data == fetch_jufo_api(response)
        call == Asked(calls[c], IssnRequest(query), data)
    IN IF data # None THEN GotResults(c, call, data)
       ELSE NoResults(c, call)

\* data = await fetch_jufo_api(f"{base_url}?issn={quote(query)}")
QueryIssn(c) ==
    /\ calls[c].pc = "issn"
    /\ \E response \in SearchResponses : IssnAnswered(c, response)
    /\ UNCHANGED <<jufo_cache, Others>>

\* level = await augment_jufo_result(best_match), the cache write spawned
\* and the level returned
DetailAnswered(c, response) ==
    LET level == augment_jufo_result(calls[c].best.best_match[1], response)
    IN /\ calls' = [calls EXCEPT ![c] =
                       Return([calls[c] EXCEPT !.details = @ + 1], level)]
       /\ tasks' = [tasks EXCEPT ![c] = create_task(calls[c].journal, level)]

DetailLookup(c) ==
    /\ calls[c].pc = "detail"
    /\ \E response \in DetailResponses : DetailAnswered(c, response)
    /\ UNCHANGED <<jufo_cache, Others>>

\* asyncio.wait_for(get_jufo_level(journal_name), timeout=3.0) expires: the
\* call is cancelled at the await it is waiting in
CallTimeout(c) ==
    /\ calls[c].pc \in {"cache", "exact", "wildcard", "issn", "detail"}
    /\ calls' = [calls EXCEPT ![c].pc = "cancelled"]
    /\ UNCHANGED <<jufo_cache, tasks, Others>>

\* set_jufo_level: jufo_cache = await get_edge_config_item("jufo_cache") or {}
TaskRead(c) ==
    /\ tasks[c].pc = "spawned"
    /\ \E ok \in BOOLEAN :
           tasks' = [tasks EXCEPT ![c].pc = "read", ![c].readOk = ok,
                                  ![c].snapshot = get_edge_config_item(ok)]
    /\ UNCHANGED <<jufo_cache, calls, Others>>

\* set_jufo_level: jufo_cache[journal_name] = level and
\* await set_edge_config_item("jufo_cache", jufo_cache), which writes the
\* whole map or fails
TaskWrite(c) ==
    /\ tasks[c].pc = "read"
    /\ \/ /\ jufo_cache' = CacheSet(tasks[c].snapshot, tasks[c].journal, tasks[c].level)
          /\ tasks' = [tasks EXCEPT ![c].pc = "written"]
       \/ /\ tasks' = [tasks EXCEPT ![c].pc = "failed"]
          /\ UNCHANGED jufo_cache
    /\ UNCHANGED <<calls, Others>>

\* loop.close() of the request: a task that has not finished is destroyed
TaskLost(c) ==
    /\ tasks[c].pc \in {"spawned", "read"}
    /\ tasks' = [tasks EXCEPT ![c].pc = "lost"]
    /\ UNCHANGED <<jufo_cache, calls, Others>>

ResolveNext ==
    \E c \in 1..MaxCalls :
        \/ StartCall(c)
        \/ CacheRead(c)
        \/ QueryExact(c)
        \/ QueryWildcard(c)
        \/ QueryIssn(c)
        \/ DetailLookup(c)
        \/ CallTimeout(c)
        \/ TaskRead(c)
        \/ TaskWrite(c)
        \/ TaskLost(c)

SpecResolve == ResolveInit /\ [][ResolveNext]_vars

\* every call and every task goes on as long as something can happen to it
SpecResolveLive == SpecResolve /\ WF_vars(ResolveNext)

---------------------------------------------------------------------------
(* Specification SpecMatch: one call of get_jufo_level from the return of  *)
(* try_jufo_queries_in_sequence with results on: the loop over the         *)
(* results, the detail request and the cache write.  The call keeps the    *)
(* results it got, for every journal that is not a sentinel and every list *)
(* of at most MaxCandidates results.                                       *)

MatchJournals == {j \in ResolveJournals : ~IsSentinel(j)}

\* the call after its exact-name request was answered with data
AtResults(journal_name, data) ==
    [results |-> data] @@
    [IdleCall EXCEPT !.pc = "results", !.journal = journal_name,
                     !.queries = <<[request |-> ExactRequest(Truncate(journal_name)),
                                    found |-> TRUE]>>]

MatchInit ==
    /\ jufo_cache \in InitialCaches
    /\ \E j \in MatchJournals, data \in CandidateLists \ {<<>>} :
           calls = <<AtResults(j, data)>>
    /\ tasks = <<NoTask>>
    /\ SortIdle
    /\ MergeIdle
    /\ BatchIdle
    /\ StoreIdle

\* the loop over the results and what follows it up to the next await
MatchSelect(c) ==
    /\ calls[c].pc = "results"
    /\ GotResults(c, calls[c], calls[c].results)
    /\ UNCHANGED <<jufo_cache, Others>>

MatchNext ==
    \E c \in {1} :
        \/ MatchSelect(c)
        \/ DetailLookup(c)
        \/ CallTimeout(c)
        \/ TaskRead(c)
        \/ TaskWrite(c)
        \/ TaskLost(c)

SpecMatch == MatchInit /\ [][MatchNext]_vars

---------------------------------------------------------------------------
(* Specification SpecRace: two calls of get_jufo_level for one journal the *)
(* cache holds no level for, side by side (two records of a sub-batch, or  *)
(* two requests), against a Ranking Source that gives the same answer to   *)
(* the same request.  Each call carries the answers of the source.         *)

OkSearch(data) == [kind |-> "ok", data |-> data]

\* the answers of the Ranking Source to the three search requests and to
\* the detail request for a journal
RaceSources ==
    [exact : {OkSearch(<<[Name |-> Nature, Jufo_ID |-> <<1>>]>>),
              OkSearch(<<[Name |-> Natx, Jufo_ID |-> <<2>>]>>), [kind |-> "status"]},
     wildcard : {OkSearch(<<[Name |-> Nature, Jufo_ID |-> <<1>>]>>), [kind |-> "timeout"]},
     issn : {OkSearch(<<[Name |-> Nature, Jufo_ID |-> <<1>>]>>), [kind |-> "error"]},
     detail : {[kind |-> "ok", Level |-> <<"2">>], [kind |-> "ok", Level |-> <<>>],
               [kind |-> "timeout"]}]

RaceJournals == {Nature, IssnHyphen}

\* the call at its read of the cache
AtCache(journal_name, source) ==
    [source |-> source] @@ [IdleCall EXCEPT !.pc = "cache", !.journal = journal_name]

RaceInit ==
    /\ \E j \in RaceJournals, source \in RaceSources :
           /\ jufo_cache \in {cache \in InitialCaches : CacheGet(cache, j) = None}
           /\ calls = [c \in {1, 2} |-> AtCache(j, source)]
    /\ tasks = [c \in {1, 2} |-> NoTask]
    /\ SortIdle
    /\ MergeIdle
    /\ BatchIdle
    /\ StoreIdle

RaceExact(c) ==
    /\ calls[c].pc = "exact"
    /\ ExactAnswered(c, calls[c].source.exact)
    /\ UNCHANGED <<jufo_cache, Others>>

RaceWildcard(c) ==
    /\ calls[c].pc = "wildcard"
    /\ WildcardAnswered(c, calls[c].source.wildcard)
    /\ UNCHANGED <<jufo_cache, Others>>

RaceIssn(c) ==
    /\ calls[c].pc = "issn"
    /\ IssnAnswered(c, calls[c].source.issn)
    /\ UNCHANGED <<jufo_cache, Others>>

RaceDetail(c) ==
    /\ calls[c].pc = "detail"
    /\ DetailAnswered(c, calls[c].source.detail)
    /\ UNCHANGED <<jufo_cache, Others>>

RaceNext ==
    \E c \in {1, 2} :
        \/ CacheRead(c)
        \/ RaceExact(c)
        \/ RaceWildcard(c)
        \/ RaceIssn(c)
        \/ RaceDetail(c)
        \/ CallTimeout(c)
        \/ TaskRead(c)
        \/ TaskWrite(c)
        \/ TaskLost(c)

SpecRace == RaceInit /\ [][RaceNext]_vars

---------------------------------------------------------------------------
(* Specification SpecWriters: MaxWriters set_jufo_level tasks, spawned by  *)
(* the resolutions of one sub-batch or of overlapping requests, running    *)
(* side by side on one Ranking Cache.                                      *)

MaxWriters == 2

WriterJournals == {Nature, IssnHyphen}
WriterLevels == {None, Some(2)}

WritersInit ==
    /\ jufo_cache \in InitialCaches
    /\ calls = <<>>
    /\ tasks \in [1..MaxWriters ->
                    {create_task(j, l) : j \in WriterJournals, l \in WriterLevels}]
    /\ SortIdle
    /\ MergeIdle
    /\ BatchIdle
    /\ StoreIdle

WritersNext ==
    \E c \in 1..MaxWriters :
        \/ TaskRead(c)
        \/ TaskWrite(c)
        \/ TaskLost(c)

SpecWriters == WritersInit /\ [][WritersNext]_vars

---------------------------------------------------------------------------
(* Result Store: save_search_results, get_search_results and                *)
(* update_search_index over the blob store                                  *)

\* keywords.replace(' ', '_')
Replace(keywords) ==
    [i \in DOMAIN keywords |-> IF keywords[i] = " " THEN "_" ELSE keywords[i]]

SearchesPrefix == <<"s", "e", "a", "r", "c", "h", "e", "s", "/">>
IndexKey == <<"s", "e", "a", "r", "c", "h", "_", "i", "n", "d", "e", "x">>

DigitChars == <<"0", "1", "2", "3", "4", "5", "6", "7", "8", "9">>

\* time.strftime("%Y%m%d%H%M%S"), the clock counting the seconds of the
\* minute 2026-01-01 00:00
Minute == <<"2", "0", "2", "6", "0", "1", "0", "1", "0", "0", "0", "0">>
strftime(t) ==
    Minute \o <<DigitChars[((t \div 10) % 10) + 1], DigitChars[(t % 10) + 1]>>

\* search_key = f"searches/{keywords.replace(' ', '_')}"
SearchKey(keywords) == SearchesPrefix \o Replace(keywords)

\* key = f"searches/{keywords.replace(' ', '_')}_{timestamp}"
SnapshotKey(keywords, timestamp) ==
    SearchesPrefix \o Replace(keywords) \o <<"_">> \o timestamp

\* the data save_search_results stores under the key
Snapshot(keywords, timestamp, list) ==
    [keywords |-> keywords, timestamp |-> timestamp, results |-> list,
     count |-> Len(list)]

\* the entry save_search_results hands to update_search_index
Metadata(key, keywords, timestamp, list) ==
    [id |-> key, keywords |-> keywords, timestamp |-> timestamp,
     count |-> Len(list)]

\* get_blob returns the stored value, or None when there is none or the
\* request fails
get_blob(key, ok) == IF ok /\ key \in DOMAIN blobs THEN Some(blobs[key]) ELSE None

\* the store after put_blob(key, data) has succeeded
put_blob(key, data) ==
    [k \in DOMAIN blobs \cup {key} |-> IF k = key THEN data ELSE blobs[k]]

\* get_search_results: data.get("results", []) of a stored dict, else []
get_search_results(search_id, ok) ==
    LET data == get_blob(search_id, ok)
    IN IF data # None /\ "results" \in DOMAIN data[1] THEN data[1].results
       ELSE <<>>

\* index = await get_blob("search_index") or {"searches": []}
EmptyIndex == [searches |-> <<>>]
ReadIndex(ok) ==
    LET index == get_blob(IndexKey, ok)
    IN IF index # None THEN index[1] ELSE EmptyIndex

\* index["searches"].append(metadata)
AppendIndex(index, metadata) == [searches |-> Append(index.searches, metadata)]

---------------------------------------------------------------------------
(* Specification SpecRequests: up to MaxRequests requests, start_search    *)
(* and get_more_results, which may overlap, against one blob store (empty, *)
(* or as an earlier start_search left it) and a clock of seconds.  A step  *)
(* is what a request does from one await to the next; every remote         *)
(* operation succeeds or fails, and every wait_for of the handlers may     *)
(* expire.  process_search_batch returns a page of records with their      *)
(* levels.                                                                 *)

MaxRequests == 1
MaxClock == 1

initial_batch_size == 10

Kab == <<"a", " ", "b">>

\* keywords: two words, and the same two words followed by an underscore
\* and a timestamp
Keywords == {Kab, Kab \o <<"_">> \o strftime(0)}

StoreTargets == {None}
StoreBatchSizes == {1}

RecordA == [link |-> MakeLink(<<1>>), journal |-> Nature, year |-> Y2019, level |-> None]
RecordB == [link |-> MakeLink(<<2>>), journal |-> Nature, year |-> Y2020, level |-> Some(2)]

\* the pages process_search_batch returns
StorePages == {<<>>, <<RecordB>>, <<RecordA, RecordB>>}

NoResponse == [status |-> "none"]

IdleRequest ==
    [kind |-> "none", pc |-> "idle", keywords |-> <<>>, batch_size |-> 0,
     target_jufo |-> None, read |-> FALSE, readOk |-> FALSE, seen |-> <<>>,
     existing_results |-> <<>>, batch |-> NoReturn, new_results |-> <<>>,
     combined_results |-> <<>>, to_save |-> <<>>, timestamp |-> <<>>,
     key |-> <<>>, index |-> EmptyIndex, saved |-> FALSE, indexed |-> FALSE,
     timed_out |-> FALSE, response |-> NoResponse]

\* the snapshot last written for the keywords (history, used by the claims
\* only): <<>> for none
LatestOf(keywords) == IF keywords \in DOMAIN latest THEN latest[keywords] ELSE <<>>

Written(req) ==
    [k \in DOMAIN latest \cup {req.keywords} |->
        IF k = req.keywords
        THEN <<[key |-> req.key, results |-> req.to_save, by |-> req.kind]>>
        ELSE latest[k]]

\* the request start_search(Kab) that was answered with the page of
\* RecordA at second 0, at its put_blob and at its end
EarlierPut ==
    [IdleRequest EXCEPT !.kind = "start", !.pc = "put", !.keywords = Kab,
                        !.to_save = <<RecordA>>, !.timestamp = strftime(0),
                        !.key = SnapshotKey(Kab, strftime(0))]
EarlierDone ==
    [EarlierPut EXCEPT !.index =
        AppendIndex(EmptyIndex, Metadata(EarlierPut.key, Kab, strftime(0), <<RecordA>>))]

\* the store is empty and nothing was written, or the earlier request has
\* stored its snapshot and the index
RequestsInit ==
    /\ \/ /\ blobs = <<>>
          /\ latest = <<>>
       \/ /\ blobs = (EarlierDone.key :>
                         Snapshot(Kab, EarlierDone.timestamp, EarlierDone.to_save))
                     @@ (IndexKey :> EarlierDone.index)
          /\ latest = (Kab :> <<[key |-> EarlierDone.key,
                                 results |-> EarlierDone.to_save, by |-> "start"]>>)
    /\ now = 0
    /\ requests = [r \in 1..MaxRequests |-> IdleRequest]
    /\ SortIdle
    /\ MergeIdle
    /\ BatchIdle
    /\ ResolveIdle

NotStore == <<sortVars, mergeVars, batchVars, resolveVars>>

\* the clock passes a second
Tick ==
    /\ now < MaxClock
    /\ now' = now + 1
    /\ UNCHANGED <<blobs, requests, latest, NotStore>>

\* start_search up to its await of process_search_batch(keywords, 0, 10,
\* year_range, target_jufo)
StartSearch(r) ==
    /\ requests[r].pc = "idle"
    /\ \A d \in 1..(r - 1) : requests[d].pc # "idle"
    /\ \E keywords \in Keywords, target \in StoreTargets :
           requests' = [requests EXCEPT ![r] =
               [IdleRequest EXCEPT !.kind = "start", !.pc = "batch",
                                   !.keywords = keywords,
                                   !.batch_size = initial_batch_size,
                                   !.target_jufo = target]]
    /\ UNCHANGED <<blobs, now, latest, NotStore>>

\* get_more_results up to its await of get_search_results(search_key)
GetMoreResults(r) ==
    /\ requests[r].pc = "idle"
    /\ \A d \in 1..(r - 1) : requests[d].pc # "idle"
    /\ \E keywords \in Keywords, size \in StoreBatchSizes, target \in StoreTargets :
           requests' = [requests EXCEPT ![r] =
               [IdleRequest EXCEPT !.kind = "more", !.pc = "existing",
                                   !.keywords = keywords,
                                   !.batch_size = Min(size, 10),
                                   !.target_jufo = target]]
    /\ UNCHANGED <<blobs, now, latest, NotStore>>

\* existing_results = get_search_results(search_key), up to the await of
\* process_search_batch
ReadExisting(r) ==
    /\ requests[r].pc = "existing"
    /\ \E ok \in BOOLEAN :
           LET req == requests[r]
           IN requests' = [requests EXCEPT ![r] =
                  [req EXCEPT !.pc = "batch", !.read = TRUE, !.readOk = ok,
                              !.seen = LatestOf(req.keywords),
                              !.existing_results =
                                  get_search_results(SearchKey(req.keywords), ok)]]
    /\ UNCHANGED <<blobs, now, latest, NotStore>>

\* the response of a request that ran to its end
Success(req) ==
    IF req.kind = "start"
    THEN [status |-> "success", code |-> 200, results |-> req.batch.results,
          count |-> Len(req.batch.results),
          jufo_count |-> Some(req.batch.jufo_count),
          has_more |-> req.batch.has_more]
    ELSE [status |-> "success", code |-> 200, results |-> req.new_results,
          count |-> Len(req.combined_results),
          jufo_count |-> Some(CountJufo(req.combined_results)),
          has_more |-> req.batch.has_more]

\* process_search_batch returns; get_more_results merges and sorts;
\* save_search_results takes the timestamp and the key, up to the await
\* of put_blob
BatchReturned(r, page) ==
    /\ requests[r].pc = "batch"
    /\ LET req == requests[r]
           count == CountJufo(page)
           triple == BatchTriple(page,
                         HasMore(page, req.batch_size, req.target_jufo, count),
                         count)
           combined == merge(req.existing_results, page)
           timestamp == strftime(now)
       IN requests' = [requests EXCEPT ![r] =
              [req EXCEPT !.pc = "put", !.batch = triple,
                  !.new_results = IF req.kind = "more"
                                  THEN unique_new_results(req.existing_results, page)
                                  ELSE <<>>,
                  !.combined_results = IF req.kind = "more" THEN combined ELSE <<>>,
                  !.to_save = IF req.kind = "more" THEN sort_results(combined)
                              ELSE page,
                  !.timestamp = timestamp,
                  !.key = SnapshotKey(req.keywords, timestamp)]]
    /\ UNCHANGED <<blobs, now, latest, NotStore>>

\* process_search_batch returns one of the pages
ProcessBatch(r) == \E page \in StorePages : BatchReturned(r, page)

\* mutant: update_search_index called whatever put_blob returned
SavePut_index_whatever_url(r) ==
    /\ requests[r].pc = "put"
    /\ LET req == requests[r]
       IN \/ /\ blobs' = put_blob(req.key,
                             Snapshot(req.keywords, req.timestamp, req.to_save))
             /\ latest' = Written(req)
             /\ requests' = [requests EXCEPT ![r] =
                                [req EXCEPT !.pc = "index", !.saved = TRUE]]
          \/ /\ requests' = [requests EXCEPT ![r] = [req EXCEPT !.pc = "index"]]
             /\ UNCHANGED <<blobs, latest>>
    /\ UNCHANGED <<now, NotStore>>

\* url = await put_blob(key, data): stored, up to the await of get_blob in
\* update_search_index; or not stored, save_search_results returns False
\* and the request responds
SavePut(r) ==
    /\ requests[r].pc = "put"
    /\ LET req == requests[r]
       IN \/ /\ blobs' = put_blob(req.key,
                             Snapshot(req.keywords, req.timestamp, req.to_save))
             /\ latest' = Written(req)
             /\ requests' = [requests EXCEPT ![r] =
                                [req EXCEPT !.pc = "index", !.saved = TRUE]]
          \/ /\ requests' = [requests EXCEPT ![r] =
                                [req EXCEPT !.pc = "done", !.response = Success(req)]]
             /\ UNCHANGED <<blobs, latest>>
    /\ UNCHANGED <<now, NotStore>>

\* update_search_index: the index read and the entry appended, up to the
\* await of put_blob
IndexRead(r) ==
    /\ requests[r].pc = "index"
    /\ \E ok \in BOOLEAN :
           LET req == requests[r]
               metadata == Metadata(req.key, req.keywords, req.timestamp, req.to_save)
           IN requests' = [requests EXCEPT ![r] =
                  [req EXCEPT !.pc = "indexPut",
                              !.index = AppendIndex(ReadIndex(ok), metadata)]]
    /\ UNCHANGED <<blobs, now, latest, NotStore>>

\* await put_blob("search_index", index), stored or not;
\* save_search_results returns True and the request responds
IndexWrite(r) ==
    /\ requests[r].pc = "indexPut"
    /\ \E stored \in BOOLEAN :
           /\ blobs' = IF stored THEN put_blob(IndexKey, requests[r].index)
                       ELSE blobs
           /\ requests' = [requests EXCEPT ![r] =
                              [requests[r] EXCEPT !.pc = "done",
                                                  !.indexed = stored,
                                                  !.response = Success(requests[r])]]
    /\ UNCHANGED <<now, latest, NotStore>>

\* a wait_for of the request expires (asyncio.TimeoutError).  The handler
\* of get_more_results reads existing_results, which is not bound when the
\* first wait_for expired: the NameError is answered by the outer handler.
RequestTimeout(r) ==
    /\ requests[r].pc \in {"existing", "batch", "put", "index", "indexPut"}
    /\ LET req == requests[r]
           response ==
               IF req.kind = "start"
               THEN [status |-> "partial_success", code |-> 408, results |-> <<>>,
                     count |-> 0, jufo_count |-> Some(0), has_more |-> FALSE]
               ELSE IF req.read
               THEN [status |-> "partial_timeout", code |-> 408, results |-> <<>>,
                     count |-> Len(req.existing_results), jufo_count |-> None,
                     has_more |-> FALSE]
               ELSE [status |-> "error", code |-> 500]
       IN requests' = [requests EXCEPT ![r] =
                          [req EXCEPT !.pc = "done", !.timed_out = TRUE,
                                      !.response = response]]
    /\ UNCHANGED <<blobs, now, latest, NotStore>>

RequestsNext ==
    \/ Tick
    \/ \E r \in 1..MaxRequests :
           \/ StartSearch(r)
           \/ GetMoreResults(r)
           \/ ReadExisting(r)
           \/ ProcessBatch(r)
           \/ SavePut(r)
           \/ IndexRead(r)
           \/ IndexWrite(r)
           \/ RequestTimeout(r)

SpecRequests == RequestsInit /\ [][RequestsNext]_vars

---------------------------------------------------------------------------
(* Specification SpecSavers: MaxSavers calls of save_search_results, each  *)
(* made by a request that has its page, running side by side on one blob   *)
(* store.  A call took its timestamp in one of the seconds SaverSeconds.   *)

MaxSavers == 2

SaverSeconds == {0, 1}
SaverPages == {<<RecordB>>}

\* a request at the await of put_blob in save_search_results
AtPut(keywords, list, second) ==
    [IdleRequest EXCEPT !.kind = "start", !.pc = "put", !.keywords = keywords,
                        !.batch = BatchTriple(list, FALSE, CountJufo(list)),
                        !.to_save = list, !.timestamp = strftime(second),
                        !.key = SnapshotKey(keywords, strftime(second))]

SaversInit ==
    /\ \/ /\ blobs = <<>>
          /\ latest = <<>>
       \/ /\ blobs = (EarlierDone.key :>
                         Snapshot(Kab, EarlierDone.timestamp, EarlierDone.to_save))
                     @@ (IndexKey :> EarlierDone.index)
          /\ latest = (Kab :> <<[key |-> EarlierDone.key,
                                 results |-> EarlierDone.to_save, by |-> "start"]>>)
    /\ now = 1
    /\ requests \in [1..MaxSavers ->
                       {AtPut(k, l, t) : k \in Keywords, l \in SaverPages,
                                         t \in SaverSeconds}]
    /\ SortIdle
    /\ MergeIdle
    /\ BatchIdle
    /\ ResolveIdle

SaversNext ==
    \E r \in 1..MaxSavers :
        \/ SavePut(r)
        \/ IndexRead(r)
        \/ IndexWrite(r)
        \/ RequestTimeout(r)

SpecSavers == SaversInit /\ [][SaversNext]_vars

---------------------------------------------------------------------------
(* Specification SpecPages: one request, start_search or                   *)
(* get_more_results, that carries a target_jufo or none, against a store   *)
(* that is empty or holds the snapshot and the index an earlier            *)
(* start_search("a b") left.  The Bibliographic Source may give the same   *)
(* DOI twice within a page, and a page holds at most as many records as    *)
(* were asked for.                                                         *)

PageTargets == {None, Some(1), Some(2)}
PageBatchSizes == {1, 2}

RecordC == [link |-> MakeLink(<<3>>), journal |-> Nature, year |-> Y2019, level |-> Some(3)]

PagePages == {<<RecordA>>, <<RecordC>>, <<RecordB, RecordB>>, <<RecordA, RecordC>>}

\* a request at its first await: start_search at process_search_batch,
\* get_more_results at get_search_results
AtFirstAwait(kind, keywords, size, target) ==
    [IdleRequest EXCEPT !.kind = kind,
                        !.pc = IF kind = "start" THEN "batch" ELSE "existing",
                        !.keywords = keywords,
                        !.batch_size = IF kind = "start" THEN initial_batch_size
                                       ELSE Min(size, 10),
                        !.target_jufo = target]

\* the earlier request start_search(Kab) answered with the page of RecordB
\* at second 0
EarlierB ==
    [AtPut(Kab, <<RecordB>>, 0) EXCEPT !.index =
        AppendIndex(EmptyIndex,
                    Metadata(SnapshotKey(Kab, strftime(0)), Kab, strftime(0),
                             <<RecordB>>))]

PagesInit ==
    /\ \/ /\ blobs = <<>>
          /\ latest = <<>>
       \/ /\ blobs = (EarlierB.key :>
                         Snapshot(Kab, EarlierB.timestamp, EarlierB.to_save))
                     @@ (IndexKey :> EarlierB.index)
          /\ latest = (Kab :> <<[key |-> EarlierB.key,
                                 results |-> EarlierB.to_save, by |-> "start"]>>)
    /\ now = 1
    /\ \E kind \in {"start", "more"}, keywords \in Keywords,
          size \in PageBatchSizes, target \in PageTargets :
           requests = <<AtFirstAwait(kind, keywords, size, target)>>
    /\ SortIdle
    /\ MergeIdle
    /\ BatchIdle
    /\ ResolveIdle

\* process_search_batch returns a page of at most limit records
PageReturned(r) ==
    \E page \in PagePages :
        /\ Len(page) <= requests[r].batch_size
        /\ BatchReturned(r, page)

PagesNext ==
    \E r \in {1} :
        \/ ReadExisting(r)
        \/ PageReturned(r)
        \/ SavePut(r)
        \/ IndexRead(r)
        \/ IndexWrite(r)
        \/ RequestTimeout(r)

SpecPages == PagesInit /\ [][PagesNext]_vars

---------------------------------------------------------------------------
(* Claims about sort_results, checked under SpecSort *)

\* the year a record counts with: its value when the year string is all
\* digits, 0 otherwise
NumericYear(item) == IF isdigit(item.year) THEN DecimalValue(item.year) ELSE 0

IsNull(item) == item.level = None
HasLevel(item, l) == item.level = Some(l)
\* the level key of the sort: the negated level, -1 for a null level
LevelKey(item) == IF IsNull(item) THEN -1 ELSE -(item.level[1])
LevelAtLeast(item, l) == item.level # None /\ item.level[1] >= l

\* the place of a record of the input (its link is its own)
InputPos(item) == CHOOSE i \in 1..Len(sortInput) : sortInput[i] = item

Count(item, list) == Cardinality({i \in 1..Len(list) : list[i] = item})

\* C7 as stated: in the sorted output every record with level null comes
\* after every record with level 1 or higher and before every record with
\* level 0, whatever the years.
C7_NullAfterLevelOneOrHigher ==
    sortPc = "returned" =>
        \A i, j \in 1..Len(sortOutput) :
            IsNull(sortOutput[i]) =>
                /\ LevelAtLeast(sortOutput[j], 1) => j < i
                /\ HasLevel(sortOutput[j], 0) => i < j

\* C7 as amended: every null-level record comes after every record with
\* level 2 or higher and before every record with level 0; against level-1
\* records a null-level record is placed as a level-1 record would be: the
\* higher numeric year first, the input order on equal years.
C7_NullSortsAsLevelOne ==
    sortPc = "returned" =>
        \A i, j \in 1..Len(sortOutput) :
            IsNull(sortOutput[i]) =>
                /\ LevelAtLeast(sortOutput[j], 2) => j < i
                /\ HasLevel(sortOutput[j], 0) => i < j
                /\ (HasLevel(sortOutput[j], 1) /\ i < j) =>
                      \/ NumericYear(sortOutput[i]) > NumericYear(sortOutput[j])
                      \/ /\ NumericYear(sortOutput[i]) = NumericYear(sortOutput[j])
                         /\ InputPos(sortOutput[i]) < InputPos(sortOutput[j])
                /\ (HasLevel(sortOutput[j], 1) /\ j < i) =>
                      \/ NumericYear(sortOutput[j]) > NumericYear(sortOutput[i])
                      \/ /\ NumericYear(sortOutput[j]) = NumericYear(sortOutput[i])
                         /\ InputPos(sortOutput[j]) < InputPos(sortOutput[i])

\* a sorted list where a null-level record stands behind a level-2 or
\* level-3 record, ahead of a level-1 record and ahead of nothing else
C7_Witness ==
    /\ sortPc = "returned"
    /\ Len(sortOutput) = 3
    /\ LevelAtLeast(sortOutput[1], 2)
    /\ IsNull(sortOutput[2])
    /\ HasLevel(sortOutput[3], 1)
    /\ InputPos(sortOutput[3]) = 1

\* C8: among records with numeric levels a higher level precedes a lower
\* level; among records of equal level a higher numeric year precedes a
\* lower one, a year that is not a digit string counting as year 0.
C8_LevelThenYearDescending ==
    sortPc = "returned" =>
        \A i, j \in 1..Len(sortOutput) :
            (i < j /\ ~IsNull(sortOutput[i]) /\ ~IsNull(sortOutput[j])) =>
                /\ sortOutput[i].level[1] >= sortOutput[j].level[1]
                /\ sortOutput[i].level[1] = sortOutput[j].level[1] =>
                      NumericYear(sortOutput[i]) >= NumericYear(sortOutput[j])

\* a list given in the reverse of its sorted order: a level above the other
\* two, and of the two of equal level the dated one ahead of the "N/A" one
C8_Witness ==
    /\ sortPc = "returned"
    /\ Len(sortOutput) = 3
    /\ \A k \in 1..3 : ~IsNull(sortOutput[k])
    /\ sortOutput[1].level[1] > sortOutput[2].level[1]
    /\ sortOutput[2].level = sortOutput[3].level
    /\ isdigit(sortOutput[2].year)
    /\ sortOutput[3].year = YearNA
    /\ InputPos(sortOutput[1]) = 3
    /\ InputPos(sortOutput[2]) = 2

\* C9: the output of sort_results holds exactly the input records (each as
\* often as the input does), and two records of equal sort key keep their
\* input order.
C9_StablePermutation ==
    sortPc = "returned" =>
        /\ Len(sortOutput) = Len(sortInput)
        /\ \A k \in 1..Len(sortInput) :
               Count(sortInput[k], sortOutput) = Count(sortInput[k], sortInput)
        /\ \A i, j \in 1..Len(sortOutput) :
               (i < j /\ LevelKey(sortOutput[i]) = LevelKey(sortOutput[j])
                      /\ NumericYear(sortOutput[i]) = NumericYear(sortOutput[j])) =>
                   InputPos(sortOutput[i]) < InputPos(sortOutput[j])

\* a list the sort reorders that holds two records of equal level and year
C9_Witness ==
    /\ sortPc = "returned"
    /\ sortOutput # sortInput
    /\ \E i, j \in 1..Len(sortOutput) :
           /\ i < j
           /\ sortOutput[i].level = sortOutput[j].level
           /\ sortOutput[i].year = sortOutput[j].year

---------------------------------------------------------------------------
(* Claims about the merge, checked under SpecMerge *)

\* a real link: not empty and not the sentinel
IsRealLink(link) == Truthy(link) /\ link # NoLink

LinksOf(list) == {list[i].link : i \in 1..Len(list)}

\* the records of the page that the merge added
AddedByMerge == SubSeq(combined_results, Len(existing_results) + 1,
                       Len(combined_results))

\* C4: an incoming record is dropped only if its link is a real (non-empty,
\* non-sentinel) link already present in the existing set; an incoming
\* record whose link is empty or the sentinel is always kept.
C4_OnlyRealLinksDeduplicated ==
    mergePc = "merged" =>
        LET Kept(r) == ~(IsRealLink(r.link) /\ r.link \in LinksOf(existing_results))
        IN AddedByMerge = SelectSeq(batch_results, Kept)

\* C5: merging the page into the result of merging it once gives the same
\* sequence as merging it once.
C5_MergeIdempotent ==
    mergePc = "merged_twice" => combined_again = combined_results

\* a page merged twice of which the first merge kept one record and dropped
\* another
C5_Witness ==
    /\ mergePc = "merged_twice"
    /\ Len(AddedByMerge) = 1
    /\ Len(batch_results) = 2

---------------------------------------------------------------------------
(* Claims about process_search_batch, checked under SpecBatch *)

\* C6: the has_more that process_search_batch returns is true if and only
\* if the Bibliographic Source returned a full page (as many raw results as
\* limit) and either no target was given or the count of level-2/3 records
\* is below the target; a year filter that removes records of a full page
\* does not make has_more false (for a target that is a count or None).
C6_HasMoreIffFullPageBelowTarget ==
    (batchPc = "returned" /\ ~IsStr(target_jufo)) =>
        (batchReturn.has_more <=>
            /\ Len(raw_results) = limit
            /\ (target_jufo = None \/ batchReturn.jufo_count < target_jufo[1]))

---------------------------------------------------------------------------
(* Claims about get_jufo_level, checked under SpecResolve *)

CallIds == DOMAIN calls

\* the call has gone past its read of the Ranking Cache
HasRead(c) == calls[c].pc \notin {"idle", "cache"} /\ ~IsSentinel(calls[c].journal)

\* C2 (as stated): a call for a journal that is neither empty nor "Unknown"
\* whose read of the Ranking Cache succeeded while the cache held the
\* explicit miss (null) for the journal makes no request to the Ranking
\* Source, spawns no cache write, and returns null.
C2_NullEntryShortCircuits ==
    \A c \in CallIds :
        (HasRead(c) /\ calls[c].readOk /\ calls[c].held = <<None>>) =>
            /\ calls[c].pc = "done"
            /\ calls[c].result = None
            /\ calls[c].queries = <<>>
            /\ calls[c].details = 0
            /\ tasks[c].pc = "none"

\* C3 (as stated): a call for a journal for which the Ranking Cache held an
\* integer level when the call was made makes no request to the Ranking
\* Source and, when it returns, returns that level.
C3_HeldLevelAlwaysReturned ==
    \A c \in CallIds :
        (calls[c].atStart # <<>> /\ calls[c].atStart[1] # None) =>
            /\ calls[c].queries = <<>>
            /\ calls[c].details = 0
            /\ calls[c].pc = "done" => calls[c].result = calls[c].atStart[1]

\* C3 (amended): a call whose read of the Ranking Cache returned an integer
\* level (0 included) has returned that level, which is the level the cache
\* held at the read, has made no request to the Ranking Source, whatever
\* the source would have answered, and has spawned no cache write.
C3_ReadLevelReturned ==
    \A c \in CallIds :
        (HasRead(c) /\ calls[c].cached # None) =>
            /\ calls[c].pc = "done"
            /\ calls[c].result = calls[c].cached
            /\ calls[c].held = <<calls[c].cached>>
            /\ calls[c].queries = <<>>
            /\ calls[c].details = 0
            /\ tasks[c].pc = "none"

\* a call has returned the level 0 that its cache read returned
C3_Witness ==
    \E c \in CallIds :
        /\ calls[c].pc = "done"
        /\ calls[c].journal = Nature
        /\ calls[c].cached = Some(0)
        /\ calls[c].result = Some(0)

\* the journal string has at most 9 characters and contains a hyphen or is
\* all digits
LooksLikeIssn(journal_name) ==
    /\ Len(journal_name) <= 9
    /\ \/ "-" \in {journal_name[i] : i \in 1..Len(journal_name)}
       \/ /\ journal_name # <<>>
          /\ \A i \in 1..Len(journal_name) : journal_name[i] \in Digits

\* the request of the k-th strategy for a journal
StrategyRequest(k, journal_name) ==
    CASE k = 1 -> [strategy |-> "exact", param |-> "nimi", value |-> journal_name]
      [] k = 2 -> [strategy |-> "wildcard", param |-> "nimi",
                   value |-> <<"*">> \o journal_name \o <<"*">>]
      [] k = 3 -> [strategy |-> "issn", param |-> "issn", value |-> journal_name]

\* the number of strategies that apply to a journal
Applicable(journal_name) == IF LooksLikeIssn(journal_name) THEN 3 ELSE 2

\* C10: the requests a call has made to search the Ranking Source are, in
\* order, the exact-name request, the wildcard request and the ISSN
\* request; the ISSN request is made only for a journal of at most 9
\* characters that contains a hyphen or is all digits; every request but
\* the last one made returned nothing; and a call that has left the search
\* with nothing found has made every request that applies to its journal.
C10_StrategiesInOrder ==
    \A c \in CallIds :
        LET q == calls[c].queries
            j == calls[c].journal
        IN /\ Len(q) <= Applicable(j)
           /\ \A k \in 1..Len(q) :
                  /\ q[k].request = StrategyRequest(k, j)
                  /\ k < Len(q) => ~q[k].found
           /\ (calls[c].pc \in {"wildcard", "issn"}) => ~q[Len(q)].found
           /\ (calls[c].pc = "detail") => q[Len(q)].found
           /\ (/\ calls[c].pc = "done"
               /\ HasRead(c)
               /\ calls[c].cached = None
               /\ ~q[Len(q)].found) => Len(q) = Applicable(j)

\* a call for an ISSN of digits got nothing from the exact-name and the
\* wildcard request, and results from the ISSN request
C10_Witness ==
    \E c \in CallIds :
        /\ calls[c].journal = IssnDigits
        /\ Len(calls[c].queries) = 3
        /\ calls[c].queries[3].found
        /\ calls[c].pc \in {"detail", "done"}

---------------------------------------------------------------------------
(* Claims about the search requests, checked under SpecRequests *)

RequestIds == DOMAIN requests

Records(list) == {list[i] : i \in 1..Len(list)}

\* C1 (as stated): a get_more_results request for keywords whose latest
\* snapshot, when the request read the store, had been written by
\* start_search with records R1, and whose read succeeded, has R1 as its
\* existing results; and the snapshot it writes holds every record of R1
\* and every record of the new page whose link is not the link of a record
\* of R1.
C1_MoreExtendsFirstPage ==
    \A r \in RequestIds :
        LET req == requests[r]
        IN (/\ req.kind = "more"
            /\ req.read
            /\ req.readOk
            /\ req.seen # <<>>
            /\ req.seen[1].by = "start") =>
               LET R1 == req.seen[1].results
               IN /\ req.existing_results = R1
                  /\ req.saved =>
                        /\ Records(R1) \subseteq Records(req.to_save)
                        /\ \A rec \in Records(req.batch.results) :
                               rec.link \notin {x.link : x \in Records(R1)}
                                   => rec \in Records(req.to_save)

---------------------------------------------------------------------------
(* Claims about failures in get_jufo_level, checked under SpecResolve *)

\* C11 (as stated): no call of get_jufo_level raises to its caller, whatever
\* the Ranking Source and the cache answer: a failed or malformed response
\* at a step counts as nothing returned by that step.
C11_NeverRaises ==
    \A c \in CallIds : calls[c].pc # "raised"

---------------------------------------------------------------------------
(* Claims about failures in process_search_batch, checked under SpecBatch *)

EmptyTriple == [results |-> <<>>, has_more |-> FALSE, jufo_count |-> 0]

\* the comparison of the count with a str target has failed in the call
ComparisonFailed == task_outcomes # <<>> /\ Len(target_jufo) = 2

\* C12: process_search_batch never ends by raising, whatever the source,
\* the resolutions and the comparison with the target do; and a call in
\* which the comparison with the target failed, an error no inner handler
\* catches, has returned exactly ([], False, 0).
C12_ErrorsBecomeEmptyTriple ==
    /\ batchPc # "raised"
    /\ (batchPc = "returned" /\ ComparisonFailed) => batchReturn = EmptyTriple

\* a call that had enriched two records has returned the empty triple after
\* the comparison with a str target failed
C12_Witness ==
    /\ batchPc = "returned"
    /\ ComparisonFailed
    /\ Len(enriched_results) = 2
    /\ batchReturn = EmptyTriple

\* the Bibliographic Source does not answer the request of the call
NeverResponds == crossref_response.kind = "never"

\* C13: when the Bibliographic Source never responds, search gives the
\* empty list once its deadline has expired, no ranking resolution is
\* made, and the call eventually returns ([], False, 0).
C13_TimeoutReturnsEmpty ==
    /\ [](NeverResponds /\ batchPc # "search" =>
              /\ results = <<>>
              /\ task_outcomes = <<>>
              /\ enriched_results = <<>>)
    /\ NeverResponds ~> (batchPc = "returned" /\ batchReturn = EmptyTriple)

\* a call whose source never responded has returned the empty triple
C13_Witness ==
    /\ NeverResponds
    /\ batchPc = "returned"
    /\ batchReturn = EmptyTriple
    /\ task_outcomes = <<>>

\* enrich_with_jufo_levels has run in the call
Enriched == batchPc \in {"enriched", "returned"} /\ task_outcomes # <<>>

---------------------------------------------------------------------------
(* Claims about the cache writes, checked under SpecResolveLive *)

\* C15 (as stated): every set_jufo_level task that a call of get_jufo_level
\* has spawned eventually writes its entry to the Ranking Cache; none is
\* dropped when the event loop of the request is closed, and none fails.
C15_SpawnedWritesApplied ==
    \A c \in 1..MaxCalls :
        (tasks[c].pc = "spawned") ~> (tasks[c].pc = "written")

---------------------------------------------------------------------------
(* Claims about concurrent cache writers, checked under SpecWriters *)

Writers == DOMAIN tasks

HasWritten(c) == tasks[c].pc = "written"

HasEntry(map, journal_name, level) ==
    journal_name \in DOMAIN map /\ map[journal_name] = level

\* C16: set_jufo_level writes back the map it read with its one entry
\* added, whatever was written in between: the entry of a writer that has
\* written is in the cache unless another writer has written too, either
\* for the same journal or from a map that did not hold that entry (the
\* last writer wins).
C16_LastWriterWins ==
    \A c \in Writers :
        HasWritten(c) =>
            \/ HasEntry(jufo_cache, tasks[c].journal, tasks[c].level)
            \/ \E d \in Writers \ {c} :
                   /\ HasWritten(d)
                   /\ \/ tasks[d].journal = tasks[c].journal
                      \/ ~HasEntry(tasks[d].snapshot, tasks[c].journal,
                                   tasks[c].level)

\* two writers for different journals have both read the cache, empty at
\* the time, and both written, and the cache holds one entry only
C16_Witness ==
    \E c, d \in Writers :
        /\ HasWritten(c) /\ HasWritten(d)
        /\ tasks[c].readOk /\ tasks[d].readOk
        /\ tasks[c].snapshot = <<>> /\ tasks[d].snapshot = <<>>
        /\ tasks[c].journal # tasks[d].journal
        /\ DOMAIN jufo_cache = {tasks[d].journal}

---------------------------------------------------------------------------
(* Claims about concurrent saves, checked under SpecSavers *)

Savers == DOMAIN requests

\* the entry the save of the request hands to update_search_index
SaverEntry(req) == Metadata(req.key, req.keywords, req.timestamp, req.to_save)

InIndex(index, metadata) ==
    \E i \in DOMAIN index.searches : index.searches[i] = metadata

\* C17: update_search_index writes back the index it read with its one
\* entry appended, whatever was written in between: the entry of a save
\* whose index write was stored is in the stored index unless another save
\* has stored an index without that entry (the last writer wins).
C17_LastIndexWriterWins ==
    \A r \in Savers :
        requests[r].indexed =>
            /\ IndexKey \in DOMAIN blobs
            /\ \/ InIndex(blobs[IndexKey], SaverEntry(requests[r]))
               \/ \E d \in Savers \ {r} :
                      /\ requests[d].indexed
                      /\ ~InIndex(requests[d].index, SaverEntry(requests[r]))

\* on a store that was empty, two saves have stored their snapshots under
\* two keys and have both stored the index, which holds one entry
C17_Witness ==
    \E r, d \in Savers :
        /\ requests[r].indexed /\ requests[d].indexed
        /\ requests[r].key # requests[d].key
        /\ DOMAIN blobs = {requests[r].key, requests[d].key, IndexKey}
        /\ EarlierDone.key \notin DOMAIN blobs
        /\ blobs[IndexKey].searches = <<SaverEntry(requests[d])>>

---------------------------------------------------------------------------
(* Claims about the stored snapshots, checked under SpecRequests *)

SnapshotKeys == DOMAIN blobs \ {IndexKey}

\* C18 (as stated): a snapshot stored under a key stays as it was written;
\* no later save writes another value under that key.
C18_SnapshotsNeverOverwritten ==
    [][\A k \in SnapshotKeys : blobs'[k] = blobs[k]]_vars


\* the place of a record in a list that holds it
PosIn(item, list) == CHOOSE i \in 1..Len(list) : list[i] = item

\* out holds the records of inp, each as often, by ascending sort key, and
\* records of equal key in the order inp has them
SortedFrom(out, inp) ==
    /\ Len(out) = Len(inp)
    /\ \A k \in 1..Len(inp) : Count(inp[k], out) = Count(inp[k], inp)
    /\ \A i, j \in 1..Len(out) :
           i < j =>
               /\ ~TupleLess(get_sort_key(out[j]), get_sort_key(out[i]))
               /\ get_sort_key(out[i]) = get_sort_key(out[j]) =>
                      PosIn(out[i], inp) <= PosIn(out[j], inp)

\* C19: a get_more_results request that stores its snapshot has read the
\* existing results before, and the snapshot it stores holds the existing
\* results followed by the new records whose link is not among them, put
\* in the order of the sort: never an unmerged or unsorted list.
C19_PersistsSortedMerge ==
    [][\A r \in RequestIds :
           (requests[r].kind = "more" /\ ~requests[r].saved /\ requests'[r].saved) =>
               LET req == requests[r]
                   stored == blobs'[req.key].results
               IN /\ req.read
                  /\ SortedFrom(stored, merge(req.existing_results, req.batch.results))]_vars

\* a get_more_results request that read a stored page has stored the merge
\* of that page and a new record, in another order than the merge had
C19_Witness ==
    \E r \in RequestIds :
        LET req == requests[r]
        IN /\ req.kind = "more"
           /\ req.saved
           /\ req.existing_results # <<>>
           /\ req.new_results # <<>>
           /\ req.key \in DOMAIN blobs
           /\ blobs[req.key].results = req.to_save
           /\ req.to_save # req.combined_results


---------------------------------------------------------------------------
(* Claims about the deadlines of the requests, checked under SpecRequests *)

PartialStatuses == {"partial_success", "partial_timeout"}

\* C20 (as stated): a request one of whose waits expired is answered with
\* a partial status, an empty list of new results and has_more = false,
\* never with a hard error.
C20_TimeoutAnsweredPartial ==
    \A r \in RequestIds :
        requests[r].timed_out =>
            /\ requests[r].response.status \in PartialStatuses
            /\ requests[r].response.results = <<>>
            /\ requests[r].response.has_more = FALSE


---------------------------------------------------------------------------
(* Claims about the steps of get_jufo_level, checked under SpecResolve *)

Sentinels == {<<>>, UnknownJournal}

\* C21: a call for the empty journal or for "Unknown" returns null in the
\* step it is made in: it is never at the read of the Ranking Cache, makes
\* no request to the Ranking Source, spawns no cache write and leaves the
\* cache as it is.
C21_SentinelBypassesEverything ==
    [][\A c \in CallIds :
           (calls'[c] # calls[c] /\ calls'[c].journal \in Sentinels) =>
               /\ calls[c].pc = "idle"
               /\ calls'[c].pc = "done"
               /\ calls'[c].result = None
               /\ calls'[c].queries = <<>>
               /\ calls'[c].details = 0
               /\ calls'[c].held = <<>>
               /\ ~calls'[c].readOk
               /\ tasks' = tasks
               /\ tasks[c].pc = "none"
               /\ jufo_cache' = jufo_cache]_vars

\* a call for "Unknown" has returned while the cache holds an entry
C21_Witness ==
    \E c \in CallIds :
        /\ calls[c].journal = UnknownJournal
        /\ calls[c].pc = "done"
        /\ jufo_cache # <<>>


---------------------------------------------------------------------------
(* Claims about the year filter of search, checked under SpecBatch *)

\* a range "<start>-<end>" with both parts digit strings
WellFormed(range) ==
    LET parts == Split(range, "-")
    IN Len(parts) = 2 /\ isdigit(parts[1]) /\ isdigit(parts[2])

\* C22 (as stated): for a year range that is neither "all" nor well-formed
\* search returns the records of the Bibliographic Source, none removed.
C22_MalformedRangeKeepsAll ==
    (batchPc # "search" /\ year_range # All /\ ~WellFormed(year_range)) =>
        results = raw_results


---------------------------------------------------------------------------
(* Claims about the choice of the match, checked under SpecMatch *)

\* the similarity of the i-th result of the call to its journal
RatioOf(call, i) == fuzz_ratio(call.results[i].Name, call.journal)

\* every result of the call is a candidate: a JSON object
AllCandidates(call) == \A i \in 1..Len(call.results) : IsDict(call.results[i])

\* the k-th result has the highest ratio, and no result before it has it
HighestFirst(call, k) ==
    /\ \A i \in 1..Len(call.results) : RatioOf(call, i) <= RatioOf(call, k)
    /\ \A i \in 1..(k - 1) : RatioOf(call, i) < RatioOf(call, k)

\* the call has spawned the cache write of the level for its journal
WriteIssued(c, level) ==
    /\ tasks[c].pc # "none"
    /\ tasks[c].journal = calls[c].journal
    /\ tasks[c].level = level

\* C23: a call that has gone through its candidates has selected the first
\* candidate of the highest ratio to the journal; when that ratio is 60 or
\* less it has made no detail lookup, has issued the cache write of null
\* for the journal and has returned null.
C23_BestCandidateAboveSixty ==
    \A c \in CallIds :
        LET call == calls[c]
        IN (call.pc # "results" /\ AllCandidates(call)) =>
               \E k \in 1..Len(call.results) :
                   /\ HighestFirst(call, k)
                   /\ RatioOf(call, k) > 0 =>
                          /\ call.best.best_match = <<call.results[k]>>
                          /\ call.best.best_ratio = RatioOf(call, k)
                   /\ RatioOf(call, k) <= 60 =>
                          /\ call.details = 0
                          /\ call.pc = "done"
                          /\ call.result = None
                          /\ WriteIssued(c, None)

\* the best of two candidates has the ratio 60, and the miss is in the
\* cache
C23_Witness ==
    \E c \in CallIds :
        /\ calls[c].pc = "done"
        /\ Len(calls[c].results) = 2
        /\ AllCandidates(calls[c])
        /\ calls[c].best.best_ratio = 60
        /\ tasks[c].pc = "written"
        /\ Entry(jufo_cache, calls[c].journal) = <<None>>


\* the first result of the highest ratio, for a call with candidates only
Best(call) == CHOOSE k \in 1..Len(call.results) : HighestFirst(call, k)

\* the call is over its candidates and the best of them has a ratio above 60
MatchAccepted(call) ==
    /\ call.pc \in {"detail", "done"}
    /\ AllCandidates(call)
    /\ RatioOf(call, Best(call)) > 60

\* C24 (as stated): a call whose best candidate has a ratio above 60 and
\* that has returned has made exactly one detail lookup and has issued the
\* cache write of the level it returned.
C24_OneDetailLookup ==
    \A c \in CallIds :
        (MatchAccepted(calls[c]) /\ calls[c].pc = "done") =>
            /\ calls[c].details = 1
            /\ WriteIssued(c, calls[c].result)

\* C24 (as amended): a call whose best candidate has a ratio above 60 makes
\* one detail lookup when the candidate has a Jufo_ID and none when it has
\* not, and then the level is null; the call that has returned has issued
\* the cache write of the level it returned, null included, and no write
\* is issued before the return.
C24_DetailLookupIfIdentified ==
    \A c \in CallIds :
        LET call == calls[c]
            identified == call.results[Best(call)].Jufo_ID # <<>>
        IN MatchAccepted(call) =>
               /\ call.pc = "detail" => (identified /\ call.details = 0 /\ tasks[c].pc = "none")
               /\ call.pc = "done" =>
                      /\ call.details = IF identified THEN 1 ELSE 0
                      /\ ~identified => call.result = None
                      /\ call.result \in CachedValues
                      /\ WriteIssued(c, call.result)

\* the level 2 of the accepted candidate was returned and is in the cache
C24_Witness ==
    \E c \in CallIds :
        /\ MatchAccepted(calls[c])
        /\ calls[c].pc = "done"
        /\ calls[c].details = 1
        /\ calls[c].result = Some(2)
        /\ tasks[c].pc = "written"
        /\ Entry(jufo_cache, calls[c].journal) = <<Some(2)>>


---------------------------------------------------------------------------
(* Claims about the misses of get_jufo_level, checked under SpecResolve *)

\* every request the call has made to search the Ranking Source returned
\* nothing
NothingFound(call) ==
    /\ call.queries # <<>>
    /\ \A q \in 1..Len(call.queries) : ~call.queries[q].found

\* C25: a call that found no level in the cache and whose requests all
\* returned nothing has, once every applicable strategy is tried, returned
\* null and issued the cache write of null for the journal; and it does
\* not return before every applicable strategy is tried.
C25_MissRecorded ==
    \A c \in CallIds :
        LET call == calls[c]
        IN NothingFound(call) =>
               /\ call.pc = "done" =>
                      /\ Len(call.queries) = Applicable(call.journal)
                      /\ call.result = None
                      /\ WriteIssued(c, None)
               /\ Len(call.queries) = Applicable(call.journal) =>
                      call.pc = "done"

\* the three strategies returned nothing for a journal the cache had no
\* entry for, and the miss is in the cache
C25_Witness ==
    \E c \in CallIds :
        /\ NothingFound(calls[c])
        /\ Len(calls[c].queries) = 3
        /\ calls[c].held = <<>>
        /\ calls[c].readOk
        /\ calls[c].pc = "done"
        /\ tasks[c].pc = "written"
        /\ Entry(jufo_cache, calls[c].journal) = <<None>>


---------------------------------------------------------------------------
(* Claims about the counts of process_search_batch, checked under SpecBatch *)

\* the places of the list whose record has level 2 or 3
HighQuality(list) ==
    {i \in 1..Len(list) : list[i].level # None /\ list[i].level[1] >= 2}

\* C26: the count process_search_batch returns is the number of records of
\* the page it returns whose level is 2 or 3, and when the call went
\* through without an error that page is the enriched page; a record of
\* level null, 0 or 1 is not counted.
C26_CountsLevelsTwoAndThree ==
    batchPc = "returned" =>
        /\ batchReturn.jufo_count = Cardinality(HighQuality(batchReturn.results))
        /\ (Enriched /\ ~ComparisonFailed) =>
               /\ batchReturn.results = enriched_results
               /\ batchReturn.jufo_count = Cardinality(HighQuality(enriched_results))

\* a page of a level-3 record and a level-1 record was returned with the
\* count 1
C26_Witness ==
    /\ batchPc = "returned"
    /\ Len(batchReturn.results) = 2
    /\ batchReturn.results[1].level = Some(3)
    /\ batchReturn.results[2].level = Some(1)
    /\ batchReturn.jufo_count = 1


\* C27: a call whose search returned no records returns ([], False, 0)
\* from there: it never gets to the enrichment, so no ranking resolution
\* is made for it, and nothing of the Ranking Resolver changes.
C27_EmptyPageShortCircuits ==
    (batchPc \notin {"search", "searched"} /\ results = <<>>) =>
        /\ batchPc = "returned"
        /\ batchReturn = EmptyTriple
        /\ enriched_results = <<>>
        /\ task_outcomes = <<>>
        /\ jufo_cache = <<>> /\ calls = <<>> /\ tasks = <<>>

\* the Bibliographic Source answered with a record, the year filter left
\* none, and the call returned the empty triple
C27_Witness ==
    /\ batchPc = "returned"
    /\ raw_results # <<>>
    /\ results = <<>>
    /\ batchReturn = EmptyTriple


---------------------------------------------------------------------------
(* Claims about the History Index, checked under SpecRequests *)

\* the index as the store holds it
StoredIndex == IF IndexKey \in DOMAIN blobs THEN blobs[IndexKey] ELSE EmptyIndex

\* C28 (as stated): a save that has stored its snapshot and its index
\* leaves the index the store held with one entry appended, the entry of
\* the snapshot just written with the count of its results; no entry that
\* was there is replaced or removed.
C28_SaveAppendsOneEntry ==
    [][\A r \in RequestIds :
           (requests[r].pc = "indexPut" /\ requests'[r].indexed) =>
               /\ SaverEntry(requests[r]).id = requests[r].key
               /\ SaverEntry(requests[r]).count = Len(requests[r].to_save)
               /\ blobs'[IndexKey].searches =
                      Append(StoredIndex.searches, SaverEntry(requests[r]))]_vars


---------------------------------------------------------------------------
(* Claims about the fan-out of the enrichment, checked under SpecEnrich *)

InFlight == {i \in 1..Len(task_outcomes) : task_outcomes[i] = Running}

Started(i) == task_outcomes[i] # Waiting

\* C29 (as stated): at most batch_size resolutions are in flight; no
\* resolution of a later sub-batch is started while one of an earlier
\* sub-batch is in flight; and enrich_with_jufo_levels does not return
\* while a resolution is in flight.
C29_BoundedFanOutAndFanIn ==
    /\ Cardinality(InFlight) <= batch_size
    /\ \A i, j \in 1..Len(task_outcomes) :
           (SubBatchOf(i) < SubBatchOf(j) /\ Started(j)) => i \notin InFlight
    /\ batchPc = "enriched" => InFlight = {}



---------------------------------------------------------------------------
(* Claims about two calls for one journal, checked under SpecRace *)

\* the call has asked the Ranking Source
LookedUp(c) == calls[c].queries # <<>>

\* C30: of two calls for a journal the cache held no level for, each call
\* whose read of the cache gave no level makes its own requests to the
\* Ranking Source; the calls that return, return the same level; every
\* cache write is the write of that level, and when a write has landed the
\* cache maps the journal to it.
C30_DuplicateLookupBenign ==
    \A c, d \in CallIds :
        /\ (calls[c].pc = "done" /\ calls[c].cached = None) => LookedUp(c)
        /\ (calls[c].pc = "done" /\ calls[d].pc = "done") =>
               calls[c].result = calls[d].result
        /\ (tasks[c].pc # "none" /\ calls[d].pc = "done") =>
               tasks[c].level = calls[d].result
        /\ (tasks[c].pc = "written" /\ calls[d].pc = "done") =>
               Entry(jufo_cache, calls[c].journal) = <<calls[d].result>>

\* both calls read the cache before a write landed, both looked the
\* journal up and returned level 2, and both writes have landed
C30_Witness ==
    /\ \A c \in CallIds :
           /\ calls[c].pc = "done"
           /\ calls[c].held = <<>>
           /\ calls[c].readOk
           /\ LookedUp(c)
           /\ calls[c].details = 1
           /\ calls[c].result = Some(2)
           /\ tasks[c].pc = "written"
    /\ Entry(jufo_cache, calls[1].journal) = <<Some(2)>>

---------------------------------------------------------------------------
(* Claims about the store after a request, checked under SpecRequests *)

\* the key lies under the searches/ prefix
UnderSearches(key) ==
    /\ Len(key) >= Len(SearchesPrefix)
    /\ SubSeq(key, 1, Len(SearchesPrefix)) = SearchesPrefix

\* the ids of the entries of the stored index
IndexedIds == {StoredIndex.searches[i].id : i \in DOMAIN StoredIndex.searches}

\* the keys of the stored snapshots
StoredSnapshots == {k \in DOMAIN blobs : UnderSearches(k)}

\* no request is running and one has finished
Quiet ==
    /\ \A r \in RequestIds : requests[r].pc \in {"idle", "done"}
    /\ \E r \in RequestIds : requests[r].pc = "done"

\* C31 (as stated): when a request has finished and none is running, every
\* id of the History Index names a stored snapshot and every stored
\* snapshot has an index entry with its key as id, whatever failed or
\* timed out on the way.
C31_StoreConsistentAfterRequest ==
    Quiet => /\ IndexedIds \subseteq StoredSnapshots
             /\ StoredSnapshots \subseteq IndexedIds

\* C32: a request whose put_blob of the snapshot gave no url (saved is
\* what save_search_results returns) never is in update_search_index, has
\* neither read nor written the History Index, and its steps leave the
\* stored index as it was.
C32_FailedSnapshotLeavesIndex ==
    /\ [](\A r \in RequestIds :
             ~requests[r].saved =>
                 /\ requests[r].pc \notin {"index", "indexPut"}
                 /\ requests[r].index = EmptyIndex
                 /\ ~requests[r].indexed)
    /\ [][\A r \in RequestIds :
              (requests'[r] # requests[r] /\ ~requests'[r].saved) =>
                  StoredIndex' = StoredIndex]_vars

\* the store held the index of an earlier save; the request got its page,
\* its put_blob stored nothing, and it answered with success
C32_Witness ==
    \E r \in RequestIds :
        /\ requests[r].pc = "done"
        /\ requests[r].response.status = "success"
        /\ requests[r].to_save # <<>>
        /\ ~requests[r].saved
        /\ requests[r].key \notin DOMAIN blobs
        /\ StoredIndex = EarlierDone.index


---------------------------------------------------------------------------
(* Claims about the pages of a request, checked under SpecPages *)

\* no two records of the list share a real link
NoDuplicateLinks(list) ==
    \A i, j \in DOMAIN list :
        (i # j /\ IsRealLink(list[i].link)) => list[i].link # list[j].link

\* C33 (as stated): no stored snapshot holds two records with the same
\* real link, also when the Bibliographic Source gave the same DOI twice
\* within one page.
C33_NoDuplicateLinksInSnapshot ==
    \A k \in StoredSnapshots : NoDuplicateLinks(blobs[k].results)

\* C35 (as stated): a get_more_results that carried a target_jufo and
\* answered with success and has_more = true reports, in the same
\* response, a cumulative jufo_count below the target.
C35_TargetReachedStopsPaging ==
    \A r \in DOMAIN requests :
        (/\ requests[r].kind = "more"
         /\ requests[r].pc = "done"
         /\ requests[r].response.status = "success"
         /\ requests[r].target_jufo # None
         /\ requests[r].response.has_more) =>
            requests[r].response.jufo_count[1] < requests[r].target_jufo[1]

---------------------------------------------------------------------------
(* Claims about a failing resolution, checked under SpecEnrich *)

\* the tasks of the sub-batch of the i-th record
SubBatch(i) ==
    {k \in 1..Len(results) : SubBatchOf(k) = SubBatchOf(i)}

\* a resolution of the sub-batch of the i-th record has raised
RaisedIn(i) == \E k \in SubBatch(i) : task_outcomes[k].kind = "raise"

\* C34: when enrich_with_jufo_levels has returned, it returns the input
\* records one for one in input order; every record of a sub-batch in
\* which a resolution raised has level null, and every record of a
\* sub-batch in which none raised has the level its own resolution gave
\* (null for a timeout).
C34_RaiseContainedInSubBatch ==
    batchPc = "enriched" =>
        /\ Len(enriched_results) = Len(results)
        /\ \A i \in 1..Len(results) :
               /\ enriched_results[i].link = results[i].link
               /\ enriched_results[i].journal = results[i].journal
               /\ enriched_results[i].year = results[i].year
               /\ RaisedIn(i) => enriched_results[i].level = None
               /\ ~RaisedIn(i) =>
                      /\ task_outcomes[i].kind \in {"level", "timeout"}
                      /\ enriched_results[i].level =
                             (IF task_outcomes[i].kind = "level"
                              THEN task_outcomes[i].level ELSE None)

\* seven records: the first resolution returned level 2, the second
\* raised, and the resolutions of the second sub-batch returned level 2
C34_Witness ==
    /\ batchPc = "enriched"
    /\ Len(results) = 7
    /\ task_outcomes[1] = [kind |-> "level", level |-> Some(2)]
    /\ task_outcomes[2].kind = "raise"
    /\ \A i \in 1..5 : enriched_results[i].level = None
    /\ \A i \in 6..7 : enriched_results[i].level = Some(2)

---------------------------------------------------------------------------
(* Claims about a well-formed year range, checked under SpecBatch *)

\* the two parts of a well-formed range
StartOf(range) == DecimalValue(Split(range, "-")[1])
EndOf(range) == DecimalValue(Split(range, "-")[2])

\* the year of the record is an integer within the range
WithinRange(item, range) ==
    /\ isdigit(item.year)
    /\ StartOf(range) <= DecimalValue(item.year)
    /\ (Split(range, "-")[2] = Unbounded \/ DecimalValue(item.year) <= EndOf(range))

\* the records of the list that lie within the range, in the order of the list
RECURSIVE Within(_, _)
Within(list, range) ==
    IF list = <<>> THEN <<>>
    ELSE (IF WithinRange(Head(list), range) THEN <<Head(list)>> ELSE <<>>)
             \o Within(Tail(list), range)

\* C36: for a well-formed range search returns the records of the
\* Bibliographic Source whose year is an integer y with start <= y and
\* (end is written "9999" or y <= end), in source order, and no other
\* record; for "all" it returns every record of the source.
C36_WellFormedRangeFilters ==
    batchPc # "search" =>
        /\ WellFormed(year_range) => results = Within(raw_results, year_range)
        /\ year_range = All => results = raw_results

\* the range 2012-2020 and a page with a record of 2012 and one without a
\* year: the record of the first year of the range is kept, the other one
\* dropped
C36_Witness ==
    /\ batchPc # "search"
    /\ year_range = Range(Y2012, Y2020)
    /\ Len(raw_results) = 2
    /\ raw_results[1].year = YearNA
    /\ raw_results[2].year = Y2012
    /\ results = <<raw_results[2]>>

===========================================================================
